---- MODULE Spec2Model ----
(***************************************************************************)
(* State-machine model of the career-page crawler: the per-domain fetch    *)
(* governor (CircuitBreaker, AdaptiveDelay), StealthFetcher.fetch in its   *)
(* static and JS-render variants, and the selector-plan cache              *)
(* (CachedLLMExtractor.extract over the llm_pattern_cache table).          *)
(*                                                                         *)
(* Time is the monotonic clock in whole ticks.  Dictionaries keyed by      *)
(* domain are functions; a dict that can miss a key (open_since, the plan  *)
(* store) is a function whose DOMAIN is the set of keys present.           *)
(***************************************************************************)
EXTENDS Integers, Sequences, FiniteSets, TLC

\* ------------------------------------------------------------------ bounds
\* Last tick of the monotonic clock the model explores.
MaxTime == 5
\* CircuitBreaker(threshold=...) ranges over 1..MaxThreshold.
MaxThreshold == 3
\* CircuitBreaker(cooldown=...) ranges over 0..MaxCooldown ticks.
MaxCooldown == 2
\* Cap on a domain's failure counter when record_failure is driven directly.
MaxFailures == 4

\* AdaptiveDelay(min_delay=..., max_delay=...) in ticks.
MinDelay == 1
MaxDelay == 2
\* A backoff factor f is held as the integer f * 2^ScaleBits.
ScaleBits == 3

\* The wall clock (datetime.now, the database's now()) runs up to MaxStamp.
MaxStamp == 6
\* The longest batch handed to upsert_job_postings_batch.
MaxBatch == 3
\* The most (keyword, location, target) triples of a search configuration.
MaxTargets == 2
\* run_crawl calls in one process
MaxCrawls == 2
\* The most proxy URLs a pool is constructed with, and the most get_next calls
\* made on one pool.
MaxPool == 3
MaxNext == 4

Domains == {"a.com", "b.com"}
\* The domain whose breaker is driven call by call in SpecCircuit.  Every
\* CircuitBreaker method reads and writes the entries of its own domain only.
Probed == {"a.com"}

VARIABLES
    now,              \* time.monotonic()
    threshold,        \* CircuitBreaker.threshold
    cooldown,         \* CircuitBreaker.cooldown
    failure_counts,   \* CircuitBreaker._failure_counts (defaultdict(int))
    open_since,       \* CircuitBreaker._open_since (dict)
    last,             \* the last CircuitBreaker call made from outside: op, domain, result
    hist,             \* per domain, what has been called so far (history)
    last_request,     \* AdaptiveDelay._last_request (defaultdict(float))
    backoff_factor,   \* AdaptiveDelay._backoff_factor (defaultdict(lambda: 1.0)), scaled
    user_agents,      \* fingerprint._user_agents: number of lines of user_agents.txt
    pc,               \* where the current StealthFetcher.fetch call stands
    call,             \* its arguments and the domain it computed
    wake,             \* the end of its asyncio.sleep in AdaptiveDelay.wait, scaled
    pending,          \* the value its return statement is about to return
    result,           \* what it returned to the caller
    obs,              \* what it has done so far (history of the call)
    store,            \* the llm_pattern_cache table: a set of rows
    ex,               \* the last CachedLLMExtractor.extract call (history)
    task,             \* per caller, its extract call in progress on the shared table
    job_postings,     \* the job_postings table: a set of rows
    clock,            \* the wall clock that stamps crawled_at and updated_at
    up,               \* the last upsert call: its jobs and what it returned (history)
    crawl_runs,       \* the crawl_runs table: the rows in order of creation
    eng,              \* where CrawlEngine.run_full_crawl stands
    waiter,           \* per caller, its AdaptiveDelay.wait call made from outside
    dl,               \* the completions of those wait calls (history)
    proc,             \* main.py: the startup crawl and the scheduled crawl of the process
    crawls,           \* main.py: the run_crawl calls made so far in the process
    proxies,          \* ProxyPool._proxies: the proxy URLs, in pool order
    index,            \* ProxyPool._index
    px,               \* the calls made on the pool (history)
    sg                \* two documents and the signatures computed for them

circuitVars == <<threshold, cooldown, failure_counts, open_since>>
delayVars == <<last_request, backoff_factor>>
fetchVars == <<user_agents, pc, call, wake, pending, result, obs>>
cacheVars == <<store, ex>>
\* What the governor and the fetcher never touch.
jobVars == <<job_postings, clock, up>>
engineVars == <<crawl_runs, eng>>
waitVars == <<waiter, dl>>
mainVars == <<proc, crawls>>
poolVars == <<proxies, index, px>>
pureVars == <<sg>>
restVarsButMain == <<cacheVars, task, jobVars, engineVars, waitVars, poolVars, pureVars>>
restVars == <<restVarsButMain, mainVars>>
\* The fetcher with its governors.
govVars == <<now, circuitVars, delayVars, fetchVars, last, hist>>
\* What the extractor never touches, and what the upsert never touches.
nonCacheVars == <<govVars, jobVars, engineVars, waitVars, mainVars, poolVars, pureVars>>
nonJobVars == <<govVars, cacheVars, task, engineVars, waitVars, mainVars,
                poolVars, pureVars>>
\* What the orchestrator's bookkeeping of runs never touches.
nonEngineVars == <<govVars, cacheVars, task, job_postings, up, waitVars,
                   mainVars, poolVars, pureVars>>
\* What AdaptiveDelay, called from outside, never touches.
nonDelayVars == <<now, circuitVars, fetchVars, last, hist, cacheVars, task,
                  jobVars, engineVars, mainVars, poolVars, pureVars>>
\* What the crawls of the process, seen from main.py, never touch.
nonMainVars == <<govVars, cacheVars, task, jobVars, engineVars, waitVars,
                 poolVars, pureVars>>
\* What the proxy pool never touches.
nonPoolVars == <<govVars, cacheVars, task, jobVars, engineVars, waitVars,
                 mainVars, pureVars>>
\* What a signature computation never touches.
nonPureVars == <<govVars, cacheVars, task, jobVars, engineVars, waitVars,
                 mainVars, poolVars>>
vars == <<now, threshold, cooldown, failure_counts, open_since, last, hist,
          last_request, backoff_factor, user_agents, pc, call, wake, pending,
          result, obs, store, ex, task, job_postings, clock, up,
          crawl_runs, eng, waiter, dl, proc, crawls, proxies, index, px, sg>>

\* ------------------------------------------------------- CircuitBreaker

\* del d[key]
DictDel(dict, key) == [k \in (DOMAIN dict) \ {key} |-> dict[k]]

\* d[key] = value
DictSet(dict, key, value) ==
    [k \in (DOMAIN dict) \cup {key} |-> IF k = key THEN value ELSE dict[k]]

\* is_open with the cooldown test made strict (elapsed > cooldown).
is_open_strict(domain, ret) ==
    IF domain \notin DOMAIN open_since
    THEN /\ ret = FALSE
         /\ UNCHANGED <<failure_counts, open_since>>
    ELSE LET elapsed == now - open_since[domain] IN
         IF elapsed > cooldown
         THEN /\ open_since' = DictDel(open_since, domain)
              /\ failure_counts' = [failure_counts EXCEPT ![domain] = 0]
              /\ ret = FALSE
         ELSE /\ ret = TRUE
              /\ UNCHANGED <<failure_counts, open_since>>

\* An open circuit stays open whatever time has elapsed.
is_open_for_good(domain, ret) ==
    /\ ret = (domain \in DOMAIN open_since)
    /\ UNCHANGED <<failure_counts, open_since>>

\* CircuitBreaker.is_open(domain) returning ret.
is_open(domain, ret) ==
    IF domain \notin DOMAIN open_since
    THEN /\ ret = FALSE
         /\ UNCHANGED <<failure_counts, open_since>>
    ELSE LET elapsed == now - open_since[domain] IN
         IF elapsed >= cooldown
         THEN /\ open_since' = DictDel(open_since, domain)
              /\ failure_counts' = [failure_counts EXCEPT ![domain] = 0]
              /\ ret = FALSE
         ELSE /\ ret = TRUE
              /\ UNCHANGED <<failure_counts, open_since>>

\* record_success that closes the circuit but keeps the failure counter.
record_success_keeps_count(domain) ==
    /\ UNCHANGED failure_counts
    /\ open_since' = IF domain \in DOMAIN open_since
                     THEN DictDel(open_since, domain)
                     ELSE open_since

\* The failure count is reset and the circuit is left as it is.
record_success_keeps_open(domain) ==
    /\ failure_counts' = [failure_counts EXCEPT ![domain] = 0]
    /\ UNCHANGED open_since

\* CircuitBreaker.record_success(domain)
record_success(domain) ==
    /\ failure_counts' = [failure_counts EXCEPT ![domain] = 0]
    /\ open_since' = IF domain \in DOMAIN open_since
                     THEN DictDel(open_since, domain)
                     ELSE open_since

\* One failure counter for all the domains.
record_failure_shared(domain) ==
    LET count == failure_counts[domain] + 1 IN
    /\ failure_counts' = [d \in DOMAIN failure_counts |-> count]
    /\ open_since' = IF count >= threshold
                     THEN DictSet(open_since, domain, now)
                     ELSE open_since

\* record_failure that opens one failure late (count > threshold).
record_failure_late(domain) ==
    LET count == failure_counts[domain] + 1 IN
    /\ failure_counts' = [failure_counts EXCEPT ![domain] = count]
    /\ open_since' = IF count > threshold
                     THEN DictSet(open_since, domain, now)
                     ELSE open_since

\* CircuitBreaker.record_failure(domain)
record_failure(domain) ==
    LET count == failure_counts[domain] + 1 IN
    /\ failure_counts' = [failure_counts EXCEPT ![domain] = count]
    /\ open_since' = IF count >= threshold
                     THEN DictSet(open_since, domain, now)
                     ELSE open_since

\* Half-open is reported only once more than the cooldown has elapsed.
get_status_strict(domain) ==
    IF domain \in DOMAIN open_since
    THEN LET elapsed == now - open_since[domain] IN
         IF elapsed > cooldown THEN "half-open" ELSE "open"
    ELSE "closed"

\* CircuitBreaker.get_status(domain): the returned string.
get_status(domain) ==
    IF domain \in DOMAIN open_since
    THEN LET elapsed == now - open_since[domain] IN
         IF elapsed >= cooldown THEN "half-open" ELSE "open"
    ELSE "closed"

\* ------------------------------------------------------------- history
\* hist[d].origin     how the circuit of d was last closed with a zero counter:
\*                    "init" (construction), "success" (a record_success on a
\*                    closed circuit), "recovered" (a record_success on an open
\*                    circuit), "probe" (the clearing is_open)
\* hist[d].before     the failure counter that closing call found
\* hist[d].streak     record_failure(d) calls since then
\* hist[d].openedAt   the streak at which open_since[d] went from unset to set
\*                    (0: it has not, since then)
HistInit == [origin |-> "init", before |-> 0, streak |-> 0, openedAt |-> 0]

HistFailure(d) ==
    LET h == hist[d]
        opens == d \notin DOMAIN open_since /\ d \in DOMAIN open_since'
    IN [h EXCEPT !.streak = @ + 1,
                 !.openedAt = IF opens THEN h.streak + 1 ELSE @]

HistSuccess(d) ==
    [HistInit EXCEPT !.origin = IF d \in DOMAIN open_since THEN "recovered" ELSE "success",
                     !.before = failure_counts[d]]

HistIsOpen(d) ==
    IF d \in DOMAIN open_since /\ d \notin DOMAIN open_since'
    THEN [HistInit EXCEPT !.origin = "probe", !.before = failure_counts[d]]
    ELSE hist[d]

\* -------------------------------------------------------- AdaptiveDelay

\* The backoff factor 1.0.
Unit == 2 ^ ScaleBits

Min(a, b) == IF a <= b THEN a ELSE b
Max(a, b) == IF a >= b THEN a ELSE b

\* AdaptiveDelay.__init__
DelayInit ==
    /\ last_request = [d \in Domains |-> 0]
    /\ backoff_factor = [d \in Domains |-> Unit]

\* AdaptiveDelay._jittered_delay(domain), scaled, for the draw base of
\* random.uniform(min_delay, max_delay).
jittered_delay(domain, base) == base * backoff_factor[domain]

\* The halved factor is not held at 1.0.
report_success_no_floor(domain) ==
    backoff_factor' = [backoff_factor EXCEPT ![domain] = @ \div 2]

\* AdaptiveDelay.report_success(domain)
report_success(domain) ==
    backoff_factor' = [backoff_factor EXCEPT ![domain] = Max(Unit, @ \div 2)]

\* The raised factor is not capped.
report_error_uncapped(domain, status_code) ==
    backoff_factor' =
        [backoff_factor EXCEPT ![domain] =
            IF status_code \in {429, 503} THEN @ * 2 ELSE (@ * 3) \div 2]

\* A rate-limit status raises the factor as any other error does.
report_error_one_rate(domain, status_code) ==
    backoff_factor' =
        [backoff_factor EXCEPT ![domain] = Min(5 * Unit, (@ * 3) \div 2)]

\* AdaptiveDelay.report_error(domain, status_code); status_code 0 is None.
report_error(domain, status_code) ==
    backoff_factor' =
        [backoff_factor EXCEPT ![domain] =
            IF status_code \in {429, 503}
            THEN Min(10 * Unit, @ * 2)
            ELSE Min(5 * Unit, (@ * 3) \div 2)]

\* The halvings of report_success and report_error are exact on the scaled
\* factor for the two reports one fetch can make.
Exact(domain) == backoff_factor[domain] % 4 = 0

\* ------------------------------------------------------- StealthFetcher

Urls == {"https://a.com/jobs", "http://[a.com/jobs"}

\* urlparse(url) raises ValueError (an unclosed bracket in the authority).
Malformed(url) == url = "http://[a.com/jobs"

\* StealthFetcher._get_domain(url) for the urls that parse.
get_domain(url) == "a.com"

\* The statuses a transport answers with; 0 is page.goto returning None.
Statuses == {200, 301, 404, 429, 500, 503}

NoCall == [url |-> "", js |-> FALSE, domain |-> ""]

ObsInit == [opened |-> "-", waited |-> FALSE, sent |-> FALSE, status |-> -1,
            succ |-> 0, fail |-> 0, rsucc |-> 0, rerr |-> 0, was |-> 0, cnt |-> 0,
            probe |-> FALSE]

\* StealthFetcher.__init__ and the module state of fingerprint.py
FetchInit ==
    /\ user_agents \in {0, 1}
    /\ pc = "idle"
    /\ call = NoCall
    /\ wake = 0
    /\ pending = "-"
    /\ result = "-"
    /\ obs = ObsInit

\* fetch(url, js_render) is called; one call at a time per fetcher.
FetchCall(url, js) ==
    /\ pc \in {"idle", "done", "raised"}
    /\ pc' = "parse"
    /\ call' = [url |-> url, js |-> js, domain |-> ""]
    /\ pending' = "-"
    /\ result' = "-"
    /\ obs' = ObsInit
    /\ wake' = 0
    /\ UNCHANGED <<now, circuitVars, delayVars, user_agents, last, hist, restVars>>

\* domain = self._get_domain(url)
FetchGetDomain ==
    /\ pc = "parse"
    /\ IF Malformed(call.url)
       THEN /\ pc' = "raised"
            /\ UNCHANGED call
       ELSE /\ Exact(get_domain(call.url))
            /\ pc' = "circuit"
            /\ call' = [call EXCEPT !.domain = get_domain(call.url)]
    /\ UNCHANGED <<now, circuitVars, delayVars, user_agents, wake, pending,
                   result, obs, last, hist, restVars>>

\* The circuit is polled but its answer ignored: the call always goes on.
FetchCircuitCheckIgnored ==
    /\ pc = "circuit"
    /\ \E ret \in BOOLEAN :
          /\ is_open(call.domain, ret)
          /\ obs' = [obs EXCEPT !.opened = IF ret THEN "true" ELSE "false",
                                !.probe = (~ret /\ call.domain \in DOMAIN open_since)]
    /\ pc' = "wait"
    /\ UNCHANGED <<now, threshold, cooldown, delayVars, user_agents, call, wake,
                   pending, result, last, hist, restVars>>

\* if self.circuit.is_open(domain): return None
FetchCircuitCheck ==
    /\ pc = "circuit"
    /\ \E ret \in BOOLEAN :
          /\ is_open(call.domain, ret)
          /\ obs' = [obs EXCEPT !.opened = IF ret THEN "true" ELSE "false",
                                !.probe = (~ret /\ call.domain \in DOMAIN open_since)]
          /\ IF ret
             THEN pc' = "done" /\ result' = "null"
             ELSE pc' = "wait" /\ UNCHANGED result
    /\ UNCHANGED <<now, threshold, cooldown, delayVars, user_agents, call, wake,
                   pending, last, hist, restVars>>

\* await self.delay.wait(domain), up to its asyncio.sleep
FetchWaitEnter ==
    /\ pc = "wait"
    /\ \E base \in MinDelay..MaxDelay :
          LET domain == call.domain
              elapsed == (now - last_request[domain]) * Unit
              delay == jittered_delay(domain, base)
          IN IF elapsed < delay
             THEN /\ pc' = "sleeping"
                  /\ wake' = now * Unit + (delay - elapsed)
                  /\ UNCHANGED <<last_request, obs>>
             ELSE /\ pc' = "prepare"
                  /\ last_request' = [last_request EXCEPT ![domain] = now]
                  /\ obs' = [obs EXCEPT !.waited = TRUE]
                  /\ UNCHANGED wake
    /\ UNCHANGED <<now, circuitVars, backoff_factor, user_agents, call, pending,
                   result, last, hist, restVars>>

\* asyncio.sleep(wait_time) is over: self._last_request[domain] = monotonic()
FetchWaitWake ==
    /\ pc = "sleeping"
    /\ now * Unit >= wake
    /\ pc' = "prepare"
    /\ last_request' = [last_request EXCEPT ![call.domain] = now]
    /\ obs' = [obs EXCEPT !.waited = TRUE]
    /\ UNCHANGED <<now, circuitVars, backoff_factor, user_agents, call, wake,
                   pending, result, last, hist, restVars>>

\* random_headers() / random_user_agent() and proxy_pool.get_random(), outside
\* the try: random.choice raises IndexError on an empty user-agent list.  Then
\* the client or browser is set up and client.get / page.goto is awaited.
FetchPrepare ==
    /\ pc = "prepare"
    /\ IF user_agents = 0
       THEN pc' = "raised" /\ UNCHANGED obs
       ELSE pc' = "request" /\ obs' = [obs EXCEPT !.sent = TRUE]
    /\ UNCHANGED <<now, circuitVars, delayVars, user_agents, call, wake, pending,
                   result, last, hist, restVars>>

\* except Exception: record_failure, report_error, return None
Handler ==
    /\ record_failure(call.domain)
    /\ report_error(call.domain, 0)
    /\ obs' = [obs EXCEPT !.fail = @ + 1, !.rerr = @ + 1]
    /\ pc' = "done"
    /\ result' = "null"
    /\ pending' = "-"

\* The request raises (network error, timeout, launch failure) inside the try.
FetchTransportError ==
    /\ pc = "request"
    /\ Handler
    /\ UNCHANGED <<now, threshold, cooldown, last_request, user_agents, call,
                   wake, last, hist, restVars>>

\* fetch_static: response = await client.get(url) and the status tests.
StaticRespond(status) ==
    /\ pc = "request" /\ ~call.js
    /\ IF status \in {429, 503}
       THEN /\ report_error(call.domain, status)
            /\ record_failure(call.domain)
            /\ obs' = [obs EXCEPT !.status = status, !.rerr = @ + 1, !.fail = @ + 1,
                              !.was = backoff_factor[call.domain],
                              !.cnt = failure_counts[call.domain]]
            /\ pending' = "null"
       ELSE IF status >= 400
       THEN /\ record_failure(call.domain)
            /\ obs' = [obs EXCEPT !.status = status, !.fail = @ + 1]
            /\ pending' = "null"
            /\ UNCHANGED backoff_factor
       ELSE /\ report_success(call.domain)
            /\ record_success(call.domain)
            /\ obs' = [obs EXCEPT !.status = status, !.rsucc = @ + 1, !.succ = @ + 1]
            /\ pending' = "html"
    /\ pc' = "exit"
    /\ UNCHANGED <<now, threshold, cooldown, last_request, user_agents, call,
                   wake, result, last, hist, restVars>>

\* fetch_js: response = await page.goto(...) and the one status test.
JsRespond(status) ==
    /\ pc = "request" /\ call.js
    /\ IF status \in {429, 503}
       THEN /\ report_error(call.domain, status)
            /\ record_failure(call.domain)
            /\ obs' = [obs EXCEPT !.status = status, !.rerr = @ + 1, !.fail = @ + 1,
                              !.was = backoff_factor[call.domain],
                              !.cnt = failure_counts[call.domain]]
            /\ pending' = "null"
            /\ pc' = "close"
       ELSE /\ obs' = [obs EXCEPT !.status = status]
            /\ pc' = "settle"
            /\ UNCHANGED <<failure_counts, open_since, backoff_factor, pending>>
    /\ UNCHANGED <<now, threshold, cooldown, last_request, user_agents, call,
                   wake, result, last, hist, restVars>>

\* fetch_js, rate-limited branch: await browser.close(); return None
JsCloseAfterError(raises) ==
    /\ pc = "close"
    /\ IF raises
       THEN Handler
       ELSE /\ pc' = "exit"
            /\ UNCHANGED <<failure_counts, open_since, backoff_factor, obs,
                           pending, result>>
    /\ UNCHANGED <<now, threshold, cooldown, last_request, user_agents, call,
                   wake, last, hist, restVars>>

\* fetch_js: wait_for_timeout, page.content(), browser.close(), then
\* report_success, record_success, return html
JsSnapshot(raises) ==
    /\ pc = "settle"
    /\ IF raises
       THEN Handler
       ELSE /\ report_success(call.domain)
            /\ record_success(call.domain)
            /\ obs' = [obs EXCEPT !.rsucc = @ + 1, !.succ = @ + 1]
            /\ pending' = "html"
            /\ pc' = "exit"
            /\ UNCHANGED result
    /\ UNCHANGED <<now, threshold, cooldown, last_request, user_agents, call,
                   wake, last, hist, restVars>>

\* The return statement leaves the async with block: the client (or the
\* playwright context) is closed, which may raise into the except clause.
FetchExit(raises) ==
    /\ pc = "exit"
    /\ IF raises
       THEN Handler
       ELSE /\ pc' = "done"
            /\ result' = pending
            /\ UNCHANGED <<failure_counts, open_since, backoff_factor, obs, pending>>
    /\ UNCHANGED <<now, threshold, cooldown, last_request, user_agents, call,
                   wake, last, hist, restVars>>

\* ------------------------------------------------- pages and selectors
\* A page is the sequence of its cards in document order.  A card is a div
\* element with one class; it has the text of its title element (class "t")
\* and the href of its anchor.

Card(cls, title, href) ==
    [tag |-> "div", class |-> <<cls>>, cls |-> cls, title |-> title, href |-> href]

\* Two job cards as in the sample page of the tests, the second with an
\* absolute href.
PageJobs == << Card("job", "AI Engineer", "/jobs/123"),
               Card("job", "ML Engineer", "https://other.com/456") >>
\* The same layout with the titles not filled in.
PageBlank == << Card("job", "", "/jobs/123"), Card("job", "", "/jobs/456") >>
\* Another layout; its anchor holds a relative href.
PageRows == << Card("row", "Data Engineer", "jobs/789") >>

Pages == {PageJobs, PageBlank, PageRows}

\* soup.find_all(True, limit=200): the number of elements that are looked at,
\* on the scale of the model's documents.
SigLimit == 2

\* The class tokens of the model, in the order sorted() puts them.
TokenOrder == <<"a", "b", "job", "row">>

\* sorted(tag.get("class", [])): a token that occurs twice is kept twice.
RECURSIVE SortedFrom(_, _)
SortedFrom(classes, k) ==
    IF Len(classes) <= 1 THEN classes
    ELSE IF k > Len(TokenOrder) THEN << >>
    ELSE SelectSeq(classes, LAMBDA token : token = TokenOrder[k])
         \o SortedFrom(classes, k + 1)

\* sep.join(parts)
RECURSIVE Join(_, _)
Join(parts, sep) ==
    IF parts = << >> THEN ""
    ELSE IF Len(parts) = 1 THEN parts[1]
    ELSE parts[1] \o sep \o Join(Tail(parts), sep)

\* The class tokens are joined as they stand in the attribute.
compute_page_signature_unsorted(html) ==
    LET n == Min(Len(html), SigLimit)
        structure_parts ==
            [i \in 1..n |-> html[i].tag \o ":" \o Join(html[i].class, ".")]
    IN Join(structure_parts, "|")

\* compute_page_signature(html): the string that is digested; md5 is taken to
\* be free of collisions, so the digest stands for its input.
compute_page_signature(html) ==
    LET n == Min(Len(html), SigLimit)
        structure_parts ==
            [i \in 1..n |-> html[i].tag \o ":"
                               \o Join(SortedFrom(html[i].class, 1), ".")]
    IN Join(structure_parts, "|")

\* An element of a document: its tag name, the tokens of its class attribute
\* as written, its text.
Element(tag, classes, text) == [tag |-> tag, class |-> classes, text |-> text]

Elements ==
    {Element("div", classes, text) :
        classes \in {<<"a">>, <<"a", "a">>, <<"a", "b">>, <<"b", "a">>},
        text \in {"x", "y"}}
    \cup {Element("p", <<"a">>, "x")}

\* The documents: one element more than the signature looks at.
Docs == UNION { [1..n -> Elements] : n \in 0..(SigLimit + 1) }

NoSig == [a |-> << >>, b |-> << >>, sa |-> "-", sb |-> "-", done |-> FALSE]

SigInit == sg = NoSig

\* compute_page_signature is called on the two documents.
SignatureCall ==
    /\ ~sg.done
    /\ sg' = [sg EXCEPT !.sa = compute_page_signature(sg.a),
                        !.sb = compute_page_signature(sg.b), !.done = TRUE]
    /\ UNCHANGED nonPureVars

\* The selector plans an LLM answers with, by name.
Plans == {"job", "row", "nolist"}

PlanDef(name) ==
    CASE name = "job" ->
            [job_list_selector |-> ".job", title_selector |-> ".t", url_selector |-> "a"]
      [] name = "row" ->
            [job_list_selector |-> ".row", title_selector |-> ".t", url_selector |-> "a"]
      [] OTHER ->
            [job_list_selector |-> "", title_selector |-> ".t", url_selector |-> "a"]

\* page_url of the career page of a domain; urlparse gives scheme and netloc.
PageUrl(domain) == "https://" \o domain \o "/careers"
Origin(domain) == "https://" \o domain

\* The job URL extract_with_selectors resolves from an href.
ResolveHref(href, domain) ==
    IF href \in {"https://other.com/456"}          \* href.startswith("http")
    THEN href
    ELSE IF href \in {"/jobs/123", "/jobs/456"}    \* href.startswith("/")
    THEN Origin(domain) \o href
    ELSE ""

\* soup.select(job_list_sel): the cards the selector matches.
SelectCards(html, selector) ==
    SelectSeq(html, LAMBDA card : selector = "." \o card.cls)

\* One card to one job (title and source_url of the dict built).
CardJob(card, selectors, domain) ==
    [title |-> IF selectors.title_selector = ".t" THEN card.title ELSE "",
     source_url |-> IF selectors.url_selector = "a"
                    THEN ResolveHref(card.href, domain) ELSE ""]

RECURSIVE CardJobs(_, _, _)
CardJobs(cards, selectors, domain) ==
    IF cards = << >> THEN << >>
    ELSE LET job == CardJob(Head(cards), selectors, domain)
             rest == CardJobs(Tail(cards), selectors, domain)
         IN IF job.title = "" THEN rest ELSE <<job>> \o rest

\* extract_with_selectors(html, selectors, base_url), base_url on domain.
extract_with_selectors(html, name, domain) ==
    LET selectors == PlanDef(name)
        job_list_sel == selectors.job_list_selector
    IN IF job_list_sel = "" THEN << >>
       ELSE CardJobs(SelectCards(html, job_list_sel), selectors, domain)

\* job["search_keyword"] = keyword; job["source_site"] = domain
Enrich(jobs, keyword, domain) ==
    [i \in 1..Len(jobs) |->
        [title |-> jobs[i].title, source_url |-> jobs[i].source_url,
         search_keyword |-> keyword, source_site |-> domain]]

\* ------------------------------------------------------------ LLMExtractor
\* What the model answers: content that is no JSON, or "jobs" and "selectors".
\* selectors is a plan, "null" (None) or "{}" (an empty object).
LLMSelectors == Plans \cup {"null", "{}"}
LLMJobLists ==
    { << >>,
      << [title |-> "AI Engineer", job_url |-> "https://a.com/jobs/123"],
         [title |-> "Untracked", job_url |-> ""] >> }

Responses ==
    {[json |-> FALSE, jobs |-> << >>, selectors |-> "null"]} \cup
    [json : {TRUE}, jobs : LLMJobLists, selectors : LLMSelectors]

\* LLMExtractor.extract_jobs_from_html(html, page_url, keyword) for the answer
\* response: the pair (normalized jobs, selectors).
extract_jobs_from_html(response, domain, keyword) ==
    IF ~response.json
    THEN [jobs |-> << >>, selectors |-> "null"]
    ELSE LET kept == SelectSeq(response.jobs, LAMBDA job : job.job_url # "")
         IN [jobs |-> [i \in 1..Len(kept) |->
                          [title |-> kept[i].title, source_url |-> kept[i].job_url,
                           search_keyword |-> keyword, source_site |-> domain]],
             selectors |-> response.selectors]

\* Only the empty dict counts as no selectors.
TruthyButEmptyDict(selectors) == selectors # "{}"

\* Python truth of a selectors value.
Truthy(selectors) == selectors \notin {"null", "{}"}

\* --------------------------------------------------- llm_pattern_cache

Row(domain, page_signature, selectors) ==
    [domain |-> domain, page_signature |-> page_signature, selectors |-> selectors]

Matching(domain, page_signature) ==
    {row \in store : row.domain = domain /\ row.page_signature = page_signature}

\* get_cached_selectors(session, domain, page_signature): the selectors of the
\* row, or "null".
get_cached_selectors(domain, page_signature) ==
    IF Matching(domain, page_signature) = {}
    THEN "null"
    ELSE (CHOOSE row \in Matching(domain, page_signature) : TRUE).selectors

\* INSERT ... ON CONFLICT DO NOTHING: the first plan of a key is kept.
save_cached_selectors_keep(domain, page_signature, selectors) ==
    IF Matching(domain, page_signature) = {}
    THEN store \cup {Row(domain, page_signature, selectors)}
    ELSE store

\* An INSERT with no unique constraint behind it.
save_cached_selectors_insert(domain, page_signature, selectors) ==
    store \cup {Row(domain, page_signature, selectors)}

\* save_cached_selectors(session, domain, page_signature, selectors): the table
\* after INSERT ... ON CONFLICT ON CONSTRAINT uq_domain_signature DO UPDATE.
save_cached_selectors(domain, page_signature, selectors) ==
    (store \ Matching(domain, page_signature))
        \cup {Row(domain, page_signature, selectors)}

\* ------------------------------------------------- CachedLLMExtractor

Keywords == {"ai"}

\* No answer: the LLM was not invoked.
NoResponse == [json |-> FALSE, jobs |-> << >>, selectors |-> "-"]

ExInit == [n |-> 0, html |-> << >>, domain |-> "", keyword |-> "", used |-> "-",
           llm |-> 0, llmSel |-> "-", jobs |-> << >>, repeat |-> "-",
           resp |-> NoResponse]

\* Processes that share the table (each with a session of its own).
Callers == {1, 2}

NoTask == [pc |-> "idle", html |-> << >>, domain |-> "", sel |-> "-"]

CacheInit ==
    /\ store = {}
    /\ ex = ExInit
    /\ task = [p \in Callers |-> NoTask]

\* The plan the previous call got from the LLM, when this call is for the same
\* html and domain and that plan extracts a job from the html ("-" otherwise).
Repeat(html, domain) ==
    IF /\ ex.html = html /\ ex.domain = domain /\ ex.llm = 1
       /\ ex.llmSel \in Plans
       /\ extract_with_selectors(html, ex.llmSel, domain) # << >>
    THEN ex.llmSel
    ELSE "-"

\* The stored plan is served whenever there is one, without looking at what it
\* extracts.
ExtractServeUnverified(html, domain, keyword, response) ==
    LET page_sig == compute_page_signature(html)
        cached == get_cached_selectors(domain, page_sig)
        log == [ExInit EXCEPT !.n = 1 - ex.n, !.html = html, !.domain = domain,
                              !.keyword = keyword,
                              !.used = IF cached = "null" THEN "-" ELSE cached,
                              !.repeat = Repeat(html, domain)]
    IN /\ IF cached # "null"
          THEN /\ ex' = [log EXCEPT !.jobs =
                            Enrich(extract_with_selectors(html, cached, domain),
                                   keyword, domain)]
               /\ UNCHANGED store
          ELSE LET out == extract_jobs_from_html(response, domain, keyword) IN
               /\ store' = IF Truthy(out.selectors)
                           THEN save_cached_selectors(domain, page_sig, out.selectors)
                           ELSE store
               /\ ex' = [log EXCEPT !.llm = 1, !.llmSel = out.selectors,
                                    !.jobs = out.jobs, !.resp = response]
       /\ UNCHANGED <<nonCacheVars, task>>

\* CachedLLMExtractor.extract(session, html, page_url, keyword), the LLM
\* answering response if it is invoked.
Extract(html, domain, keyword, response) ==
    LET page_sig == compute_page_signature(html)
        cached == get_cached_selectors(domain, page_sig)
        jobs == IF cached # "null"
                THEN extract_with_selectors(html, cached, domain)
                ELSE << >>
        log == [ExInit EXCEPT !.n = 1 - ex.n, !.html = html, !.domain = domain,
                              !.keyword = keyword,
                              !.used = IF cached = "null" THEN "-" ELSE cached,
                              !.repeat = Repeat(html, domain)]
    IN /\ IF cached # "null" /\ jobs # << >>
          THEN /\ ex' = [log EXCEPT !.jobs = Enrich(jobs, keyword, domain)]
               /\ UNCHANGED store
          ELSE LET out == extract_jobs_from_html(response, domain, keyword) IN
               /\ store' = IF Truthy(out.selectors)
                           THEN save_cached_selectors(domain, page_sig, out.selectors)
                           ELSE store
               /\ ex' = [log EXCEPT !.llm = 1, !.llmSel = out.selectors,
                                    !.jobs = out.jobs, !.resp = response]
       /\ UNCHANGED <<nonCacheVars, task>>

\* --------------------------------------------------------- job_postings

\* An optional text: None, or the text.
None == << >>
Some(text) == <<text>>

\* f"{description or ''}"
OrEmpty(description) == IF description = None THEN "" ELSE description[1]

JobData(source_url, title, company, description) ==
    [source_url |-> source_url, title |-> title, company |-> company,
     description |-> description, location |-> None]

JobA == JobData("https://a.com/jobs/123", "T", "C|D", None)
\* JobA with another description: the empty text, and a text.
JobA0 == JobData("https://a.com/jobs/123", "T", "C|D", Some(""))
JobA1 == JobData("https://a.com/jobs/123", "T", "C|D", Some("x"))
\* JobA with the bar between other words of title and company.
JobAc == JobData("https://a.com/jobs/123", "T|C", "D", None)
JobB == JobData("https://b.com/jobs/7", "T", "D", Some("x"))
JobB1 == JobData("https://b.com/jobs/7", "T", "D", Some("y"))

\* A job whose company does not fit its column.
JobLong == JobData("https://b.com/jobs/9", "T", "DDDD", Some("x"))

\* JobA with a location: a column that is not part of the digest.
JobAloc == [JobA EXCEPT !.location = Some("NYC")]

JobDicts == {JobA, JobA0, JobA1, JobAc, JobAloc, JobB, JobB1}

\* company = mapped_column(String(255), nullable=False): the length a company
\* may have, on the scale of the model's texts.
CompanyMax == 3

\* The database rejects the INSERT of this job (value too long for the
\* column): session.execute raises.
Rejected(job_data) == Len(job_data.company) > CompanyMax

\* The digest leaves the description out.
compute_content_hash_no_description(description, title, company) ==
    title \o "|" \o company

\* compute_content_hash(description, title, company): the content string that
\* is digested; SHA-256 is taken to be free of collisions, so the digest
\* stands for its input.
compute_content_hash(description, title, company) ==
    title \o "|" \o company \o "|" \o OrEmpty(description)

\* The row of the table with this source_url (unique=True), as a set.
RowsOf(table, source_url) == {row \in table : row.source_url = source_url}

\* content_hash is left out of the SET list of the update.
upsert_job_posting_stale_hash(table, job_data, stamp) ==
    LET content_hash == compute_content_hash(job_data.description, job_data.title,
                                             job_data.company)
        conflict == RowsOf(table, job_data.source_url)
        inserted == [source_url |-> job_data.source_url, title |-> job_data.title,
                     company |-> job_data.company,
                     description |-> job_data.description,
                     location |-> job_data.location,
                     content_hash |-> content_hash,
                     crawled_at |-> stamp, updated_at |-> stamp]
        old == CHOOSE row \in conflict : TRUE
        \* ON CONFLICT (source_url) DO UPDATE ... WHERE content_hash != excluded
        written == IF conflict = {} THEN {inserted}
                   ELSE IF old.content_hash # content_hash
                   THEN {[old EXCEPT !.title = job_data.title,
                                     !.company = job_data.company,
                                     !.description = job_data.description,
                                     !.location = job_data.location,
                                     !.updated_at = stamp]}
                   ELSE {}
        rowcount == Cardinality(written)
        after == IF rowcount = 0 THEN table ELSE (table \ conflict) \cup written
        row == CHOOSE r \in RowsOf(after, job_data.source_url) : TRUE
    IN [table |-> after,
        ret |-> IF rowcount = 0 THEN "unchanged"
                ELSE IF row.crawled_at = row.updated_at THEN "new"
                ELSE "updated"]

\* The update has no WHERE clause: a conflicting row is always rewritten.
upsert_job_posting_no_where(table, job_data, stamp) ==
    LET content_hash == compute_content_hash(job_data.description, job_data.title,
                                             job_data.company)
        conflict == RowsOf(table, job_data.source_url)
        inserted == [source_url |-> job_data.source_url, title |-> job_data.title,
                     company |-> job_data.company,
                     description |-> job_data.description,
                     location |-> job_data.location,
                     content_hash |-> content_hash,
                     crawled_at |-> stamp, updated_at |-> stamp]
        old == CHOOSE row \in conflict : TRUE
        \* ON CONFLICT (source_url) DO UPDATE ...
        written == IF conflict = {} THEN {inserted}
                   ELSE IF TRUE
                   THEN {[old EXCEPT !.title = job_data.title,
                                     !.company = job_data.company,
                                     !.description = job_data.description,
                                     !.location = job_data.location,
                                     !.content_hash = content_hash,
                                     !.updated_at = stamp]}
                   ELSE {}
        rowcount == Cardinality(written)
        after == IF rowcount = 0 THEN table ELSE (table \ conflict) \cup written
        row == CHOOSE r \in RowsOf(after, job_data.source_url) : TRUE
    IN IF Rejected(job_data)
       THEN [table |-> table, ret |-> "raise"]
       ELSE [table |-> after,
             ret |-> IF rowcount = 0 THEN "unchanged"
                     ELSE IF row.crawled_at = row.updated_at THEN "new"
                     ELSE "updated"]

\* upsert_job_posting(session, job_data) on table at wall-clock time stamp:
\* the table afterwards and the string returned.
upsert_job_posting(table, job_data, stamp) ==
    LET content_hash == compute_content_hash(job_data.description, job_data.title,
                                             job_data.company)
        conflict == RowsOf(table, job_data.source_url)
        inserted == [source_url |-> job_data.source_url, title |-> job_data.title,
                     company |-> job_data.company,
                     description |-> job_data.description,
                     location |-> job_data.location,
                     content_hash |-> content_hash,
                     crawled_at |-> stamp, updated_at |-> stamp]
        old == CHOOSE row \in conflict : TRUE
        \* ON CONFLICT (source_url) DO UPDATE ... WHERE content_hash != excluded
        written == IF conflict = {} THEN {inserted}
                   ELSE IF old.content_hash # content_hash
                   THEN {[old EXCEPT !.title = job_data.title,
                                     !.company = job_data.company,
                                     !.description = job_data.description,
                                     !.location = job_data.location,
                                     !.content_hash = content_hash,
                                     !.updated_at = stamp]}
                   ELSE {}
        rowcount == Cardinality(written)
        after == IF rowcount = 0 THEN table ELSE (table \ conflict) \cup written
        row == CHOOSE r \in RowsOf(after, job_data.source_url) : TRUE
    IN IF Rejected(job_data)
       THEN [table |-> table, ret |-> "raise"]
       ELSE [table |-> after,
             ret |-> IF rowcount = 0 THEN "unchanged"
                     ELSE IF row.crawled_at = row.updated_at THEN "new"
                     ELSE "updated"]

NoCounts == [new |-> 0, updated |-> 0, unchanged |-> 0]

\* The whole batch reaches the database at one time stamp.
RECURSIVE upsert_job_postings_batch_at_once(_, _, _)
upsert_job_postings_batch_at_once(table, jobs, stamp) ==
    IF jobs = << >>
    THEN [table |-> table, rets |-> << >>, counts |-> NoCounts]
    ELSE LET one == upsert_job_posting(table, Head(jobs), stamp + 1)
             rest == upsert_job_postings_batch_at_once(one.table, Tail(jobs), stamp)
         IN [table |-> rest.table,
             rets |-> <<one.ret>> \o rest.rets,
             counts |-> [rest.counts EXCEPT ![one.ret] = @ + 1]]

\* counts[result] += 1, or, in the except clause, counts.setdefault("error", 0)
\* and counts["error"] += 1: the key "error" exists once a row has raised.
Counted(counts, ret) ==
    IF ret # "raise" THEN [counts EXCEPT ![ret] = @ + 1]
    ELSE IF "error" \in DOMAIN counts THEN [counts EXCEPT !["error"] = @ + 1]
    ELSE [error |-> 1] @@ counts

\* The loop of upsert_job_postings_batch over the rows still to do, on a
\* session whose transaction the database has aborted or not: once a statement
\* has failed no rollback is issued, so every later statement of the session
\* raises as well (commands are ignored until the end of the transaction).
RECURSIVE upsert_rows(_, _, _, _)
upsert_rows(table, jobs, stamp, aborted) ==
    IF jobs = << >>
    THEN [table |-> table, rets |-> << >>, counts |-> NoCounts]
    ELSE LET one == IF aborted THEN [table |-> table, ret |-> "raise"]
                    ELSE upsert_job_posting(table, Head(jobs), stamp + 1)
             rest == upsert_rows(one.table, Tail(jobs), stamp + 1,
                                 aborted \/ one.ret = "raise")
         IN [table |-> rest.table,
             rets |-> <<one.ret>> \o rest.rets,
             counts |-> Counted(rest.counts, one.ret)]

\* upsert_job_postings_batch(session, jobs), the i-th statement stamped
\* stamp + i: the table afterwards, the results in order, the counts.
upsert_job_postings_batch(table, jobs, stamp) ==
    upsert_rows(table, jobs, stamp, FALSE)

UpInit == [n |-> 0, kind |-> "-", jobs |-> << >>, rets |-> << >>,
           counts |-> NoCounts, prev |-> {}, had |-> {}, again |-> FALSE]

JobsInit ==
    /\ job_postings = {}
    /\ clock = 0
    /\ up = UpInit

\* A caller upserts one job.  Each statement reaches the database later than
\* the one before it: its time stamp is greater.
UpsertCall(job_data) ==
    LET done == upsert_job_posting(job_postings, job_data, clock + 1)
    IN /\ clock < MaxStamp
       /\ job_postings' = done.table
       /\ clock' = clock + 1
       /\ up' = [UpInit EXCEPT !.n = 1 - up.n, !.kind = "one",
                               !.jobs = <<job_data>>, !.rets = <<done.ret>>,
                               !.prev = RowsOf(job_postings, job_data.source_url)]
       /\ UNCHANGED nonJobVars

\* The jobs that go into batches.
BatchJobs == {JobA, JobA1, JobB, JobLong}
Batches == UNION { [1..n -> BatchJobs] : n \in 1..MaxBatch }

\* A caller upserts a batch.
BatchCall(jobs) ==
    LET done == upsert_job_postings_batch(job_postings, jobs, clock)
    IN /\ clock + Len(jobs) <= MaxStamp
       /\ job_postings' = done.table
       /\ clock' = clock + Len(jobs)
       /\ up' = [UpInit EXCEPT !.n = 1 - up.n, !.kind = "batch", !.jobs = jobs,
                               !.rets = done.rets, !.counts = done.counts,
                               !.had = {row.source_url : row \in job_postings},
                               !.again = (up.kind = "batch" /\ up.jobs = jobs
                                          /\ up.had = {})]
       /\ UNCHANGED nonJobVars

\* ----------------------------------------------------------- crawl_runs

\* create_crawl_run(session, keyword, source) at time stamp: the table with
\* the new row; its id is its place in the table.
create_crawl_run(runs, source, stamp) ==
    Append(runs, [source |-> source, status |-> "running", started_at |-> stamp,
                  finished_at |-> None, counts |-> NoCounts,
                  error_message |-> None])

\* The UPDATE sets the status and leaves finished_at alone.
finish_crawl_run_no_stamp(runs, run_id, status, counts, error_message, stamp) ==
    [runs EXCEPT ![run_id] = [@ EXCEPT !.status = status,
                                       !.counts = counts,
                                       !.error_message = error_message]]

\* finish_crawl_run(session, run_id, status, new_count, updated_count,
\* error_count, error_message) at time stamp.
finish_crawl_run(runs, run_id, status, counts, error_message, stamp) ==
    [runs EXCEPT ![run_id] = [@ EXCEPT !.status = status,
                                       !.finished_at = Some(stamp),
                                       !.counts = counts,
                                       !.error_message = error_message]]

\* ----------------------------------------------------------- CrawlEngine

EngIdle == [pc |-> "idle", todo |-> 0, kind |-> "-", run |-> 0,
            status |-> "-", counts |-> NoCounts, message |-> None]

EngineInit ==
    /\ crawl_runs = << >>
    /\ eng = EngIdle

\* The counts a batch upsert of extracted jobs comes back with.
BatchOutcomes == {[new |-> 1, updated |-> 0, unchanged |-> 0],
                  [new |-> 0, updated |-> 1, unchanged |-> 1]}

\* run_full_crawl() is called for a configuration of n triples; every run
\* takes a time stamp when it is created and one when it is finished.
RunFullCrawl(n) ==
    /\ eng.pc \in {"idle", "returned", "escaped"}
    /\ clock + 2 * n <= MaxStamp
    /\ eng' = [EngIdle EXCEPT !.pc = "loop", !.todo = n]
    /\ UNCHANGED <<crawl_runs, clock, nonEngineVars>>

\* The loops of run_full_crawl: the next job-board or company-page crawl, or
\* return total_stats.
EngLoop(kind) ==
    /\ eng.pc = "loop"
    /\ IF eng.todo = 0
       THEN eng' = [EngIdle EXCEPT !.pc = "returned"]
       ELSE eng' = [EngIdle EXCEPT !.pc = "create", !.todo = eng.todo - 1,
                                   !.kind = kind]
    /\ UNCHANGED <<crawl_runs, clock, nonEngineVars>>

\* run = await create_crawl_run(...), before the try: an exception of the
\* store leaves _crawl_company_page / _crawl_job_boards and run_full_crawl.
EngCreate(fails) ==
    /\ eng.pc = "create"
    /\ IF fails
       THEN /\ eng' = [eng EXCEPT !.pc = "escaped"]
            /\ UNCHANGED <<crawl_runs, clock>>
       ELSE /\ crawl_runs' = create_crawl_run(crawl_runs, eng.kind, clock + 1)
            /\ clock' = clock + 1
            /\ eng' = [eng EXCEPT !.run = Len(crawl_runs) + 1,
                                  !.pc = IF eng.kind = "page" THEN "fetch"
                                         ELSE "extract"]
    /\ UNCHANGED nonEngineVars

\* html = await self.fetcher.fetch(url, js_render); if not html: finish failed
EngFetch(outcome) ==
    /\ eng.pc = "fetch"
    /\ eng' = CASE outcome = "html" -> [eng EXCEPT !.pc = "extract"]
              [] outcome = "null" ->
                    [eng EXCEPT !.pc = "close", !.status = "failed",
                                !.message = Some("Failed to fetch")]
              [] OTHER ->
                    [eng EXCEPT !.pc = "except", !.message = Some("fetch")]
    /\ UNCHANGED <<crawl_runs, clock, nonEngineVars>>

\* jobs = await self.cached_extractor.extract(...) / search_job_boards(...);
\* if not jobs: finish completed
EngExtract(outcome) ==
    /\ eng.pc = "extract"
    /\ eng' = CASE outcome = "jobs" -> [eng EXCEPT !.pc = "upsert"]
              [] outcome = "none" -> [eng EXCEPT !.pc = "close",
                                                 !.status = "completed"]
              [] OTHER ->
                    [eng EXCEPT !.pc = "except", !.message = Some("extract")]
    /\ UNCHANGED <<crawl_runs, clock, nonEngineVars>>

\* counts = await upsert_job_postings_batch(session, jobs)
EngUpsert(counts) ==
    /\ eng.pc = "upsert"
    /\ eng' = [eng EXCEPT !.pc = "close", !.status = "completed",
                          !.counts = counts]
    /\ UNCHANGED <<crawl_runs, clock, nonEngineVars>>

\* await finish_crawl_run(...) inside the try, then return
EngClose(fails) ==
    /\ eng.pc = "close"
    /\ IF fails
       THEN /\ eng' = [eng EXCEPT !.pc = "except", !.message = Some("finish")]
            /\ UNCHANGED <<crawl_runs, clock>>
       ELSE /\ crawl_runs' = finish_crawl_run(crawl_runs, eng.run, eng.status,
                                              eng.counts, eng.message, clock + 1)
            /\ clock' = clock + 1
            /\ eng' = [eng EXCEPT !.pc = "loop"]
    /\ UNCHANGED nonEngineVars

\* except Exception as e: await finish_crawl_run(status="failed",
\* error_message=str(e)); return {"error": 1}
EngExcept(fails) ==
    /\ eng.pc = "except"
    /\ IF fails
       THEN /\ eng' = [eng EXCEPT !.pc = "escaped"]
            /\ UNCHANGED <<crawl_runs, clock>>
       ELSE /\ crawl_runs' = finish_crawl_run(crawl_runs, eng.run, "failed",
                                              NoCounts, eng.message, clock + 1)
            /\ clock' = clock + 1
            /\ eng' = [eng EXCEPT !.pc = "loop"]
    /\ UNCHANGED nonEngineVars

\* --------------------------------------- AdaptiveDelay, driven directly

NoWait == [pc |-> "idle", d |-> "", wake |-> 0]

\* at: when the last wait completed (-1: none yet); gap: the time between the
\* last two completions (-1: fewer than two); err: report_error was called
\* since the last completion; clean: it was not called between the last two;
\* rep: the last report made (its status code, 0 for none, and the factor of
\* its domain just before it).
NoReport == [op |-> "-", d |-> "", code |-> 0, was |-> 0]

DlInit == [n |-> 0, at |-> -1, gap |-> -1, err |-> FALSE, clean |-> FALSE,
           rep |-> NoReport]

WaitInit ==
    /\ waiter = [p \in Callers |-> NoWait]
    /\ dl = DlInit

\* The time is counted from the start of the clock, not from the last request.
wait_time_since_start(domain, base) ==
    LET elapsed == now * Unit
        delay == jittered_delay(domain, base)
    IN IF elapsed < delay THEN delay - elapsed ELSE 0

\* AdaptiveDelay.wait(domain): wait_time, scaled (0: no sleep), for the draw
\* base.
wait_time(domain, base) ==
    LET elapsed == (now - last_request[domain]) * Unit
        delay == jittered_delay(domain, base)
    IN IF elapsed < delay THEN delay - elapsed ELSE 0

\* self._last_request[domain] = monotonic(): the wait call completes.
Completed(domain) ==
    /\ last_request' = [last_request EXCEPT ![domain] = now]
    /\ dl' = [n |-> 1 - dl.n, at |-> now,
              gap |-> IF dl.at < 0 THEN -1 ELSE now - dl.at,
              err |-> FALSE, clean |-> ~dl.err, rep |-> dl.rep]

\* wait(domain) is called by caller p.
WaitCall(p, domain) ==
    /\ waiter[p].pc = "idle"
    /\ \E base \in MinDelay..MaxDelay :
          IF wait_time(domain, base) > 0
          THEN /\ waiter' = [waiter EXCEPT ![p] =
                               [pc |-> "sleeping", d |-> domain,
                                wake |-> now * Unit + wait_time(domain, base)]]
               /\ UNCHANGED <<last_request, dl>>
          ELSE /\ Completed(domain)
               /\ UNCHANGED waiter
    /\ UNCHANGED <<backoff_factor, nonDelayVars>>

\* asyncio.sleep(wait_time) of caller p is over.
WaitWake(p) ==
    /\ waiter[p].pc = "sleeping"
    /\ now * Unit >= waiter[p].wake
    /\ Completed(waiter[p].d)
    /\ waiter' = [waiter EXCEPT ![p] = NoWait]
    /\ UNCHANGED <<backoff_factor, nonDelayVars>>

\* report_success(domain) is called; the halving is exact on the scaled factor.
ReportSuccessCall(domain) ==
    /\ backoff_factor[domain] % 2 = 0
    /\ report_success(domain)
    /\ dl' = [dl EXCEPT !.rep = [op |-> "success", d |-> domain, code |-> 0,
                                 was |-> backoff_factor[domain]]]
    /\ UNCHANGED <<last_request, waiter, nonDelayVars>>

\* report_error(domain, status_code) is called (0: no status); the product is
\* exact on the scaled factor or above the cap.
ReportErrorCall(domain, status_code) ==
    /\ \/ status_code \in {429, 503}
       \/ backoff_factor[domain] % 2 = 0
       \/ backoff_factor[domain] * 3 >= 2 * 5 * Unit
    /\ report_error(domain, status_code)
    /\ dl' = [dl EXCEPT !.err = TRUE,
                        !.rep = [op |-> "error", d |-> domain, code |-> status_code,
                                 was |-> backoff_factor[domain]]]
    /\ UNCHANGED <<last_request, waiter, nonDelayVars>>

\* ----------------------------------------------------------------- main

\* A crawl of the process: not started, between two targets, in the fetch of
\* a target (in delay.wait, then with the request in flight), or over.
NoCrawl == [pc |-> "off", d |-> "", todo |-> 0]

\* The startup crawl (await run_crawl() in async_main) and the crawl the
\* scheduler runs on its cron trigger.
CrawlSlots == {"startup", "cron"}

MainInit ==
    /\ proc = [c \in CrawlSlots |-> NoCrawl]
    /\ crawls = 0

\* async_main: scheduler.start() ... await run_crawl(), for a configuration of
\* n targets.
StartupCrawl(n) ==
    /\ proc["startup"].pc = "off"
    /\ proc' = [proc EXCEPT !["startup"] = [pc |-> "running", d |-> "", todo |-> n]]
    /\ UNCHANGED <<crawls, nonMainVars>>

\* The cron trigger fires and the scheduler runs run_crawl on the event loop;
\* a firing while the job's previous instance still runs is skipped
\* (max_instances is left at 1).  The scheduler is started before the startup
\* crawl is awaited.
CronCrawl(n) ==
    /\ proc["cron"].pc \in {"off", "over"}
    /\ proc' = [proc EXCEPT !["cron"] = [pc |-> "running", d |-> "", todo |-> n]]
    /\ UNCHANGED <<crawls, nonMainVars>>

\* html = await self.fetcher.fetch(url, ...) for the next target of crawl c,
\* on domain d: the circuit check passes and delay.wait is awaited.
CrawlFetch(c, d) ==
    /\ proc[c].pc = "running" /\ proc[c].todo > 0
    /\ proc' = [proc EXCEPT ![c] = [@ EXCEPT !.pc = "waiting", !.d = d]]
    /\ UNCHANGED <<crawls, nonMainVars>>

\* wait is over: client.get / page.goto is awaited, the request is in flight.
CrawlRequest(c) ==
    /\ proc[c].pc = "waiting"
    /\ proc' = [proc EXCEPT ![c] = [@ EXCEPT !.pc = "request"]]
    /\ UNCHANGED <<crawls, nonMainVars>>

\* The request is answered (or fails), fetch returns, the target is done.
CrawlFetched(c) ==
    /\ proc[c].pc = "request"
    /\ proc' = [proc EXCEPT ![c] = [pc |-> "running", d |-> "", todo |-> @.todo - 1]]
    /\ UNCHANGED <<crawls, nonMainVars>>

\* run_crawl(): engine = CrawlEngine(), whose __init__ builds a StealthFetcher,
\* whose __init__ builds an AdaptiveDelay and a CircuitBreaker: the crawl run
\* starts on governors that have seen nothing.  One run at a time here.
RunCrawl ==
    /\ pc \in {"idle", "done", "raised"}
    /\ crawls < MaxCrawls
    /\ crawls' = crawls + 1
    /\ failure_counts' = [d \in Domains |-> 0]
    /\ open_since' = << >>
    /\ last_request' = [d \in Domains |-> 0]
    /\ backoff_factor' = [d \in Domains |-> Unit]
    /\ hist' = [d \in Domains |-> HistInit]
    /\ last' = [op |-> "init", d |-> "", ret |-> "-"]
    /\ UNCHANGED <<now, threshold, cooldown, fetchVars, proc, restVarsButMain>>

\* run_full_crawl returns: the crawl is over.
CrawlOver(c) ==
    /\ proc[c].pc = "running" /\ proc[c].todo = 0
    /\ proc' = [proc EXCEPT ![c] = [NoCrawl EXCEPT !.pc = "over"]]
    /\ UNCHANGED <<crawls, nonMainVars>>

\* ------------------------------------------------------------ ProxyPool

ProxyUrls == {"http://p1", "http://p2", "http://p3"}

\* The lists a pool can be constructed with: any list, repeats included.
Pools == UNION { [1..n -> ProxyUrls] : n \in 0..MaxPool }

\* fresh: no add_proxy or remove_proxy since construction; seq: what the
\* get_next calls have returned since construction, while fresh; gone: the
\* URLs that remove_proxy was called with and add_proxy was not since; was:
\* the pool as the last call found it.
NoPx == [n |-> 0, op |-> "init", arg |-> "", ret |-> None, fresh |-> TRUE,
         seq |-> << >>, gone |-> {}, was |-> << >>]

\* ProxyPool.__init__(proxy_urls)
ProxyInit(proxy_urls) ==
    /\ proxies = proxy_urls
    /\ index = 0
    /\ px = NoPx

\* ProxyPool.enabled
enabled == Len(proxies) > 0

\* ProxyPool.get_random(): the value returned, any element of the pool.
get_random(ret) ==
    IF proxies = << >> THEN ret = None
    ELSE \E i \in 1..Len(proxies) : ret = Some(proxies[i])

\* The index is not advanced.
get_next_same(ret) ==
    /\ ret = IF proxies = << >> THEN None
             ELSE Some(proxies[(index % Len(proxies)) + 1])
    /\ index' = index

\* ProxyPool.get_next(): the value returned and the index afterwards.
get_next(ret) ==
    IF proxies = << >>
    THEN ret = None /\ index' = index
    ELSE /\ ret = Some(proxies[(index % Len(proxies)) + 1])
         /\ index' = index + 1

Returns == {None} \cup {Some(u) : u \in ProxyUrls}

GetRandomCall ==
    /\ \E ret \in Returns :
          /\ get_random(ret)
          /\ px' = [px EXCEPT !.n = 1 - @, !.op = "get_random", !.arg = "",
                              !.ret = ret, !.was = proxies]
    /\ UNCHANGED <<proxies, index, nonPoolVars>>

GetNextCall ==
    /\ index < MaxNext
    /\ \E ret \in Returns :
          /\ get_next(ret)
          /\ px' = [px EXCEPT !.n = 1 - @, !.op = "get_next", !.arg = "",
                              !.ret = ret, !.was = proxies,
                              !.seq = IF px.fresh /\ ret # None
                                      THEN Append(@, ret[1]) ELSE @]
    /\ UNCHANGED <<proxies, nonPoolVars>>

\* ProxyPool.add_proxy(proxy_url)
add_proxy(proxy_url) ==
    proxies' = IF \A i \in 1..Len(proxies) : proxies[i] # proxy_url
               THEN Append(proxies, proxy_url) ELSE proxies

\* list.remove(x): the list without the first item equal to x.
RECURSIVE ListRemove(_, _)
ListRemove(list, x) ==
    IF list = << >> THEN << >>
    ELSE IF Head(list) = x THEN Tail(list)
    ELSE <<Head(list)>> \o ListRemove(Tail(list), x)

\* ProxyPool.remove_proxy(proxy_url)
remove_proxy(proxy_url) ==
    proxies' = IF \E i \in 1..Len(proxies) : proxies[i] = proxy_url
               THEN ListRemove(proxies, proxy_url) ELSE proxies

AddProxyCall(proxy_url) ==
    /\ add_proxy(proxy_url)
    /\ px' = [px EXCEPT !.n = 1 - @, !.op = "add_proxy", !.arg = proxy_url,
                        !.ret = None, !.fresh = FALSE, !.seq = << >>,
                        !.gone = @ \ {proxy_url}, !.was = proxies]
    /\ UNCHANGED <<index, nonPoolVars>>

RemoveProxyCall(proxy_url) ==
    /\ remove_proxy(proxy_url)
    /\ px' = [px EXCEPT !.n = 1 - @, !.op = "remove_proxy", !.arg = proxy_url,
                        !.ret = None, !.fresh = FALSE, !.seq = << >>,
                        !.gone = @ \cup {proxy_url}, !.was = proxies]
    /\ UNCHANGED <<index, nonPoolVars>>

\* ---------------------------------------------- the breaker, driven directly

IsOpenCall(d) ==
    /\ \E ret \in BOOLEAN :
          /\ is_open(d, ret)
          /\ last' = [op |-> "is_open", d |-> d, ret |-> IF ret THEN "true" ELSE "false"]
    /\ hist' = [hist EXCEPT ![d] = HistIsOpen(d)]
    /\ UNCHANGED <<now, threshold, cooldown, delayVars, fetchVars, restVars>>

RecordSuccessCall(d) ==
    /\ record_success(d)
    /\ last' = [op |-> "record_success", d |-> d, ret |-> "-"]
    /\ hist' = [hist EXCEPT ![d] = HistSuccess(d)]
    /\ UNCHANGED <<now, threshold, cooldown, delayVars, fetchVars, restVars>>

RecordFailureCall(d) ==
    /\ failure_counts[d] < MaxFailures
    /\ record_failure(d)
    /\ last' = [op |-> "record_failure", d |-> d, ret |-> "-"]
    /\ hist' = [hist EXCEPT ![d] = HistFailure(d)]
    /\ UNCHANGED <<now, threshold, cooldown, delayVars, fetchVars, restVars>>

GetStatusCall(d) ==
    /\ last' = [op |-> "get_status", d |-> d, ret |-> get_status(d)]
    /\ UNCHANGED <<now, circuitVars, hist, delayVars, fetchVars, restVars>>

\* The monotonic clock advances.
Tick ==
    /\ now < MaxTime
    /\ now' = now + 1
    /\ last' = [op |-> "tick", d |-> "", ret |-> "-"]
    /\ UNCHANGED <<circuitVars, hist, delayVars, fetchVars, restVars>>

\* CircuitBreaker.__init__(threshold, cooldown)
CircuitInit ==
    /\ threshold \in 1..MaxThreshold
    /\ cooldown \in 0..MaxCooldown
    /\ failure_counts = [d \in Domains |-> 0]
    /\ open_since = << >>

InitCircuit ==
    /\ now = 0
    /\ CircuitInit
    /\ last = [op |-> "init", d |-> "", ret |-> "-"]
    /\ hist = [d \in Domains |-> HistInit]
    /\ DelayInit
    /\ FetchInit
    /\ user_agents = 1
    /\ CacheInit
    /\ JobsInit
    /\ EngineInit
    /\ WaitInit
    /\ MainInit
    /\ ProxyInit(<< >>)
    /\ SigInit

NextCircuit ==
    \/ \E d \in Probed : IsOpenCall(d)
    \/ \E d \in Probed : RecordSuccessCall(d)
    \/ \E d \in Probed : RecordFailureCall(d)
    \/ \E d \in Probed : GetStatusCall(d)
    \/ Tick

SpecCircuit == InitCircuit /\ [][NextCircuit]_vars

\* ------------------------------------------- the fetcher, call after call

Init ==
    /\ now = 0
    /\ CircuitInit
    /\ last = [op |-> "init", d |-> "", ret |-> "-"]
    /\ hist = [d \in Domains |-> HistInit]
    /\ DelayInit
    /\ FetchInit
    /\ CacheInit
    /\ JobsInit
    /\ EngineInit
    /\ WaitInit
    /\ MainInit
    /\ ProxyInit(<< >>)
    /\ SigInit

Next ==
    \/ \E url \in Urls, js \in BOOLEAN : FetchCall(url, js)
    \/ FetchGetDomain
    \/ FetchCircuitCheck
    \/ FetchWaitEnter
    \/ FetchWaitWake
    \/ FetchPrepare
    \/ FetchTransportError
    \/ \E status \in Statuses : StaticRespond(status)
    \/ \E status \in Statuses \cup {0} : JsRespond(status)
    \/ \E raises \in BOOLEAN : JsCloseAfterError(raises)
    \/ \E raises \in BOOLEAN : JsSnapshot(raises)
    \/ \E raises \in BOOLEAN : FetchExit(raises)
    \/ Tick

Spec == Init /\ [][Next]_vars

\* --------------------------------------- the extraction cache, call after call

InitCache ==
    /\ now = 0
    /\ threshold = 1
    /\ cooldown = 0
    /\ failure_counts = [d \in Domains |-> 0]
    /\ open_since = << >>
    /\ last = [op |-> "init", d |-> "", ret |-> "-"]
    /\ hist = [d \in Domains |-> HistInit]
    /\ DelayInit
    /\ FetchInit
    /\ user_agents = 1
    /\ CacheInit
    /\ JobsInit
    /\ EngineInit
    /\ WaitInit
    /\ MainInit
    /\ ProxyInit(<< >>)
    /\ SigInit

NextCache ==
    \E html \in Pages, domain \in Domains, keyword \in Keywords,
       response \in Responses :
        Extract(html, domain, keyword, response)

SpecCache == InitCache /\ [][NextCache]_vars

\* ------------------------------- extract calls of several processes, by step

\* extract up to the cache test: get_cached_selectors, extract_with_selectors.
\* With a plan that yields jobs the call returns; else it turns to the LLM.
PlanLookup(p, html, domain) ==
    LET cached == get_cached_selectors(domain, compute_page_signature(html))
        jobs == IF cached # "null"
                THEN extract_with_selectors(html, cached, domain)
                ELSE << >>
    IN /\ task[p].pc = "idle"
       /\ ~(cached # "null" /\ jobs # << >>)
       /\ task' = [task EXCEPT ![p] = [NoTask EXCEPT !.pc = "llm", !.html = html,
                                                     !.domain = domain]]
       /\ UNCHANGED <<nonCacheVars, store, ex>>

\* jobs, selectors = self.extractor.extract_jobs_from_html(...); if selectors:
PlanAnswer(p, response) ==
    LET out == extract_jobs_from_html(response, task[p].domain, "ai")
    IN /\ task[p].pc = "llm"
       /\ task' = [task EXCEPT ![p] =
                     IF Truthy(out.selectors)
                     THEN [@ EXCEPT !.pc = "save", !.sel = out.selectors]
                     ELSE NoTask]
       /\ UNCHANGED <<nonCacheVars, store, ex>>

\* await save_cached_selectors(session, domain, page_sig, selectors); return
PlanSave(p) ==
    /\ task[p].pc = "save"
    /\ store' = save_cached_selectors(task[p].domain,
                                      compute_page_signature(task[p].html),
                                      task[p].sel)
    /\ task' = [task EXCEPT ![p] = [NoTask EXCEPT !.sel = task[p].sel]]
    /\ UNCHANGED <<nonCacheVars, ex>>

InitPlans == InitCache

NextPlans ==
    \E p \in Callers :
        \/ \E html \in Pages, domain \in Domains : PlanLookup(p, html, domain)
        \/ \E response \in Responses : PlanAnswer(p, response)
        \/ PlanSave(p)

SpecPlans == InitPlans /\ [][NextPlans]_vars


\* ------------------------------------------------ the job store, call after call

InitJobs == InitCache

NextJobs ==
    \/ \E job_data \in JobDicts : UpsertCall(job_data)
    \/ \E jobs \in Batches : BatchCall(jobs)

SpecJobs == InitJobs /\ [][NextJobs]_vars

\* ------------------------------------------------ the orchestrator, crawl after crawl

InitEngine == InitCache

NextEngine ==
    \/ \E n \in 1..MaxTargets : RunFullCrawl(n)
    \/ \E kind \in {"board", "page"} : EngLoop(kind)
    \/ \E fails \in BOOLEAN : EngCreate(fails)
    \/ \E outcome \in {"html", "null", "raise"} : EngFetch(outcome)
    \/ \E outcome \in {"jobs", "none", "raise"} : EngExtract(outcome)
    \/ \E counts \in BatchOutcomes : EngUpsert(counts)
    \/ \E fails \in BOOLEAN : EngClose(fails)
    \/ \E fails \in BOOLEAN : EngExcept(fails)

SpecEngine == InitEngine /\ [][NextEngine]_vars

\* The event loop keeps running the crawl that has been started.
SpecEngineFair == SpecEngine /\ WF_vars(NextEngine)

\* ------------------------------------------ the delay, one caller at a time

InitDelay == InitCache

NextDelay ==
    \/ \E d \in Probed : WaitCall(1, d)
    \/ WaitWake(1)
    \/ \E d \in Probed : ReportSuccessCall(d)
    \/ \E d \in Probed, status_code \in {0, 429, 500, 503} :
          ReportErrorCall(d, status_code)
    \/ Tick

SpecDelay == InitDelay /\ [][NextDelay]_vars

\* ------------------------------------------ the delay, callers side by side

NextDelayShared ==
    \/ \E p \in Callers, d \in Probed : WaitCall(p, d)
    \/ \E p \in Callers : WaitWake(p)
    \/ \E d \in Probed : ReportErrorCall(d, 429)
    \/ Tick

SpecDelayShared == InitDelay /\ [][NextDelayShared]_vars

\* ------------------------------------------------ the crawls of the process

InitMain == InitCache

NextMain ==
    \/ \E n \in 1..MaxTargets : StartupCrawl(n)
    \/ \E n \in 1..MaxTargets : CronCrawl(n)
    \/ \E c \in CrawlSlots, d \in Domains : CrawlFetch(c, d)
    \/ \E c \in CrawlSlots : CrawlRequest(c)
    \/ \E c \in CrawlSlots : CrawlFetched(c)
    \/ \E c \in CrawlSlots : CrawlOver(c)

SpecMain == InitMain /\ [][NextMain]_vars

\* ------------------------------------- crawl runs of one process, in a row

NextRuns ==
    \/ RunCrawl
    \/ Next

SpecRuns == Init /\ [][NextRuns]_vars

\* ------------------------------------------- the proxy pool, driven directly

InitProxy ==
    /\ now = 0
    /\ threshold = 1
    /\ cooldown = 0
    /\ failure_counts = [d \in Domains |-> 0]
    /\ open_since = << >>
    /\ last = [op |-> "init", d |-> "", ret |-> "-"]
    /\ hist = [d \in Domains |-> HistInit]
    /\ DelayInit
    /\ FetchInit
    /\ user_agents = 1
    /\ CacheInit
    /\ JobsInit
    /\ EngineInit
    /\ WaitInit
    /\ MainInit
    /\ \E proxy_urls \in Pools : ProxyInit(proxy_urls)
    /\ SigInit

NextProxy ==
    \/ GetNextCall
    \/ GetRandomCall
    \/ \E proxy_url \in ProxyUrls : AddProxyCall(proxy_url)
    \/ \E proxy_url \in ProxyUrls : RemoveProxyCall(proxy_url)

SpecProxy == InitProxy /\ [][NextProxy]_vars

\* --------------------------------------- the page signature, as a function

InitSignature ==
    /\ now = 0
    /\ threshold = 1
    /\ cooldown = 0
    /\ failure_counts = [d \in Domains |-> 0]
    /\ open_since = << >>
    /\ last = [op |-> "init", d |-> "", ret |-> "-"]
    /\ hist = [d \in Domains |-> HistInit]
    /\ DelayInit
    /\ FetchInit
    /\ user_agents = 1
    /\ CacheInit
    /\ JobsInit
    /\ EngineInit
    /\ WaitInit
    /\ MainInit
    /\ ProxyInit(<< >>)
    /\ \E a \in Docs, b \in Docs : sg = [NoSig EXCEPT !.a = a, !.b = b]

NextSignature == SignatureCall

SpecSignature == InitSignature /\ [][NextSignature]_vars

\* ------------------------------------- the fetcher, with calls that go on

\* The steps of a fetch call that has been made.
FetchStep ==
    \/ FetchGetDomain
    \/ FetchCircuitCheck
    \/ FetchWaitEnter
    \/ FetchWaitWake
    \/ FetchPrepare
    \/ FetchTransportError
    \/ \E status \in Statuses : StaticRespond(status)
    \/ \E status \in Statuses \cup {0} : JsRespond(status)
    \/ \E raises \in BOOLEAN : JsCloseAfterError(raises)
    \/ \E raises \in BOOLEAN : JsSnapshot(raises)
    \/ \E raises \in BOOLEAN : FetchExit(raises)

\* A fetch of a page of the probed domain is attempted.
FetchProbed == \E js \in BOOLEAN : FetchCall("https://a.com/jobs", js)

\* Time keeps advancing, a call that was made goes on (the event loop runs
\* it, requests are answered or time out), and fetches of the probed domain
\* keep being attempted, whatever other calls are made in between.
SpecFair ==
    /\ Spec
    /\ WF_vars(Tick)
    /\ WF_vars(FetchStep)
    /\ SF_vars(FetchProbed)

\* ------------------------- the governors of two domains, side by side

\* One fetcher: fetch calls for pages of a.com, and the governors called for
\* b.com from outside in between.
InitTwoDomains ==
    /\ now = 0
    /\ threshold = 2
    /\ cooldown = 1
    /\ failure_counts = [d \in Domains |-> 0]
    /\ open_since = << >>
    /\ last = [op |-> "init", d |-> "", ret |-> "-"]
    /\ hist = [d \in Domains |-> HistInit]
    /\ DelayInit
    /\ FetchInit
    /\ user_agents = 1
    /\ CacheInit
    /\ JobsInit
    /\ EngineInit
    /\ WaitInit
    /\ MainInit
    /\ ProxyInit(<< >>)
    /\ SigInit

\* An operation on the governors of domain d, called from outside the fetch
\* in flight: is_open, record_success, record_failure, the return of wait
\* (self._last_request[domain] = monotonic()), report_success, report_error.
\* The failures counted and the backoff raised from outside are capped.
GovernorCall(d) ==
    /\ \/ /\ \E ret \in BOOLEAN : is_open(d, ret)
          /\ UNCHANGED delayVars
       \/ /\ record_success(d)
          /\ UNCHANGED delayVars
       \/ /\ failure_counts[d] < threshold
          /\ record_failure(d)
          /\ UNCHANGED delayVars
       \/ /\ last_request' = [last_request EXCEPT ![d] = now]
          /\ UNCHANGED <<backoff_factor, failure_counts, open_since>>
       \/ /\ report_success(d)
          /\ UNCHANGED <<last_request, failure_counts, open_since>>
       \/ /\ backoff_factor[d] = Unit
          /\ report_error(d, 429)
          /\ UNCHANGED <<last_request, failure_counts, open_since>>
    /\ UNCHANGED <<now, threshold, cooldown, fetchVars, last, hist, restVars>>

NextTwoDomains ==
    \/ FetchProbed
    \/ FetchStep
    \/ GovernorCall("b.com")
    \/ Tick

SpecTwoDomains == InitTwoDomains /\ [][NextTwoDomains]_vars

\* ------------------------------------------------- claims on the breaker

\* C3: starting from a closed circuit with failure count 0, the circuit opens
\* exactly at the threshold-th consecutive record_failure(d) with no
\* record_success(d) in between: after fewer failures open_since[d] is unset
\* and is_open(d) returns false; from the threshold-th on it is set, it was set
\* at that failure, and is_open(d) returns true as long as less than cooldown
\* has elapsed.
C3_StreakState ==
    \A d \in Probed :
        /\ hist[d].streak < threshold =>
               /\ d \notin DOMAIN open_since
               /\ hist[d].openedAt = 0
        /\ hist[d].streak >= threshold =>
               /\ d \in DOMAIN open_since
               /\ hist[d].openedAt = threshold

C3_IsOpenAnswer ==
    \A d \in Probed :
        (last'.op = "is_open" /\ last'.d = d) =>
            (last'.ret = "true" <=>
                (hist[d].streak >= threshold /\ now - open_since[d] < cooldown))

C3_OpensAtThreshold == []C3_StreakState /\ [][C3_IsOpenAnswer]_vars

C3_Witness ==
    \E d \in Probed :
        /\ threshold >= 2
        /\ hist[d].streak = threshold
        /\ last.op = "is_open" /\ last.d = d /\ last.ret = "true"

\* C4: once is_open(d) has let the probe through after the cooldown (the
\* circuit is half-open), the first record_failure(d) re-opens the circuit:
\* open_since[d] is set, to the time of that failure.
C4_ProbeFailureReopens ==
    \A d \in Probed :
        (hist[d].origin = "probe" /\ hist[d].streak = 1
            /\ last.op = "record_failure" /\ last.d = d) =>
        (d \in DOMAIN open_since /\ open_since[d] = now)

\* C5: is_open(d) on a circuit with open_since[d] set: called at
\* now >= open_since[d] + cooldown it returns false, removes open_since[d] and
\* zeroes the failure count; called earlier it returns true and changes
\* neither.
C5_IsOpenStep ==
    \A d \in Probed :
        (last'.op = "is_open" /\ last'.d = d /\ d \in DOMAIN open_since) =>
            IF now >= open_since[d] + cooldown
            THEN /\ last'.ret = "false"
                 /\ d \notin DOMAIN open_since'
                 /\ failure_counts'[d] = 0
            ELSE /\ last'.ret = "true"
                 /\ open_since' = open_since
                 /\ failure_counts' = failure_counts

C5_HalfOpenProbe == [][C5_IsOpenStep]_vars

C5_Witness ==
    \E d \in Probed :
        /\ last.op = "is_open" /\ last.d = d /\ last.ret = "false"
        /\ hist[d].origin = "probe" /\ hist[d].before >= 2
        /\ cooldown >= 1

\* C6: a record_success(d) on a closed circuit zeroes the failure count, so
\* the up to threshold-1 record_failure(d) calls that follow leave the circuit
\* closed, whatever the count was before the success.
C6_SuccessResets ==
    \A d \in Probed :
        (hist[d].origin = "success" /\ hist[d].streak <= threshold - 1) =>
            /\ d \notin DOMAIN open_since
            /\ failure_counts[d] = hist[d].streak

C6_Witness ==
    \E d \in Probed :
        /\ hist[d].origin = "success" /\ hist[d].before >= 1
        /\ threshold >= 2 /\ hist[d].streak = threshold - 1

\* --------------------------------------------------- claims on the fetcher

\* The call passed the circuit check and returned to its caller.
Returned == pc = "done" /\ obs.opened = "false"

\* C1: every fetch call that passes the circuit check and returns has notified
\* the circuit breaker exactly once (one record_success or one
\* record_failure), whatever the transport did.
C1_OneCircuitNotification ==
    Returned => obs.succ + obs.fail = 1

\* C2: the request is started only after is_open answered false and the wait
\* completed, in this call; when is_open answers true the call returns null at
\* once, having called neither wait nor the transport nor any report_* or
\* record_* operation.
C2_GateBeforeRequest ==
    /\ obs.sent => (obs.opened = "false" /\ obs.waited)
    /\ obs.waited => obs.opened = "false"
    /\ obs.opened = "true" =>
          /\ pc = "done" /\ result = "null"
          /\ ~obs.waited /\ ~obs.sent
          /\ obs.succ = 0 /\ obs.fail = 0 /\ obs.rsucc = 0 /\ obs.rerr = 0

C2_WitnessRequest ==
    /\ obs.sent /\ pc = "request"
    /\ failure_counts[call.domain] > 0

C2_Witness ==
    /\ obs.opened = "true" /\ pc = "done"
    /\ last_request[call.domain] > 0

\* C7: in static and in JS-render mode, a response with a status >= 400 makes
\* fetch return null and record one circuit failure; it is never returned as
\* HTML nor recorded as a success.
C7_ErrorStatusIsFailure ==
    (obs.status >= 400 /\ pc \in {"settle", "close", "exit", "done"}) =>
        /\ obs.succ = 0
        /\ obs.fail >= 1
        /\ pending # "html"
        /\ pc = "done" => (result = "null" /\ obs.fail = 1)

\* C8: after every fetch outcome the delay and the circuit are notified
\* together and alike: report_success with record_success on 2xx/3xx,
\* report_error with record_failure on every status >= 400 and on every
\* exception.
C8_NotifiedTogether ==
    Returned =>
        /\ obs.rsucc = obs.succ
        /\ obs.rerr = obs.fail
        /\ obs.rsucc + obs.rerr >= 1

\* C9: fetch never raises to its caller; every failure ends in a null result.
C9_NeverRaises ==
    pc # "raised"


\* ------------------------------------------------ claims on the plan cache

\* C10: when the previous extract call invoked the LLM and the LLM returned a
\* selector plan that extracts at least one job from the page, an extract call
\* with the same HTML and the same domain does not invoke the LLM; it runs the
\* selector extractor with that stored plan and returns the jobs it extracts
\* (with search_keyword and source_site filled in).
C10_SecondCallUsesStoredPlan ==
    ex.repeat # "-" =>
        /\ ex.llm = 0
        /\ ex.used = ex.repeat
        /\ ex.jobs = Enrich(extract_with_selectors(ex.html, ex.repeat, ex.domain),
                            ex.keyword, ex.domain)

C10_Witness ==
    /\ ex.repeat = "job"
    /\ ex.html = PageJobs
    /\ ex.llm = 0
    /\ Len(ex.jobs) = 2
    /\ ex.jobs[1].title = "AI Engineer"
    /\ ex.jobs[2].title = "ML Engineer"


\* The call logged in ex found a stored plan that extracts no job from its html.
StalePlanFound ==
    /\ ex.used # "-"
    /\ extract_with_selectors(ex.html, ex.used, ex.domain) = << >>

\* The plan the store holds for the key of the call logged in ex.
StoredNow == get_cached_selectors(ex.domain, compute_page_signature(ex.html))

\* C11 (as the code has it): when the stored plan of (domain, signature)
\* extracts no job from the current HTML, extract invokes the LLM once and
\* returns exactly the jobs of the LLM extractor; if the LLM returned a
\* non-empty plan the store then holds that plan for the key in place of the
\* stale one, and if it returned no plan or an empty one the stale plan stays.
C11_StaleFallback ==
    StalePlanFound =>
        /\ ex.llm = 1
        /\ ex.jobs = extract_jobs_from_html(ex.resp, ex.domain, ex.keyword).jobs
        /\ ex.llmSel = ex.resp.selectors
        /\ IF Truthy(ex.llmSel)
           THEN StoredNow = ex.llmSel
           ELSE StoredNow = ex.used

C11_Witness ==
    /\ StalePlanFound
    /\ ex.used = "row" /\ ex.llmSel = "job"
    /\ ex.html = PageJobs
    /\ Len(ex.resp.jobs) = 2 /\ Len(ex.jobs) = 1
    /\ StoredNow = "job"

\* C11 as stated: when the stored plan of (domain, signature) extracts no job
\* from the current HTML, extract invokes the LLM once, returns the LLM's jobs
\* and, if the LLM returned a non-null plan, the store afterwards holds that
\* plan for the key in place of the stale one.
C11_StaleFallbackNonNull ==
    StalePlanFound =>
        /\ ex.llm = 1
        /\ ex.jobs = extract_jobs_from_html(ex.resp, ex.domain, ex.keyword).jobs
        /\ ex.llmSel # "null" => StoredNow = ex.llmSel


\* An extract call has been made and returned without invoking the LLM.
ServedFromCache == ex.html # << >> /\ ex.llm = 0

\* C12: extract returns without invoking the LLM only when there is a stored
\* plan for the key and its selector extraction on the current HTML is
\* non-empty, and the jobs returned are then that extraction; when the stored
\* plan extracts nothing from the current HTML the LLM is invoked and the
\* returned jobs are the LLM extractor's, never the stored plan's.
C12_OnlyVerifiedPlansServe ==
    /\ ServedFromCache =>
          /\ ex.used # "-"
          /\ extract_with_selectors(ex.html, ex.used, ex.domain) # << >>
          /\ ex.jobs = Enrich(extract_with_selectors(ex.html, ex.used, ex.domain),
                              ex.keyword, ex.domain)
    /\ StalePlanFound =>
          /\ ex.llm = 1
          /\ ex.jobs = extract_jobs_from_html(ex.resp, ex.domain, ex.keyword).jobs

C12_Witness ==
    /\ StalePlanFound
    /\ ex.html = PageBlank /\ ex.used = "job"
    /\ ex.llm = 1 /\ ex.jobs = << >>

C12_WitnessServed ==
    /\ ServedFromCache
    /\ ex.html = PageRows /\ ex.used = "row" /\ Len(ex.jobs) = 1


OnePlanPerKey ==
    \A r1, r2 \in store :
        (r1.domain = r2.domain /\ r1.page_signature = r2.page_signature) => r1 = r2

\* A step keeps every key, and a save leaves its key with the plan it wrote.
C13_ReplanStep ==
    /\ \A row \in store :
          \E kept \in store' :
              kept.domain = row.domain /\ kept.page_signature = row.page_signature
    /\ \A p \in Callers :
          (task[p].pc = "save" /\ task'[p].pc = "idle") =>
              LET domain == task[p].domain
                  page_sig == compute_page_signature(task[p].html)
              IN { row \in store' : row.domain = domain
                                     /\ row.page_signature = page_sig }
                   = {Row(domain, page_sig, task[p].sel)}

\* C13: in every reachable state the plan table holds at most one plan per
\* (domain, page_signature), whatever the interleaving of the extract calls of
\* several processes; a re-plan replaces the plan of its key in one step, the
\* last writer winning, and never leaves the key with two plans or with none.
C13_OnePlanPerKey == []OnePlanPerKey /\ [][C13_ReplanStep]_vars

\* Both callers planned for the same key with different plans; the second
\* save has replaced the plan of the first.
C13_Witness ==
    /\ task[1] = [NoTask EXCEPT !.sel = "row"]
    /\ task[2] = [NoTask EXCEPT !.sel = "job"]
    /\ store = {Row("a.com", compute_page_signature(PageJobs), "job")}


\* ------------------------------------------------ claims on the job store

\* The last call upserted one job.
UpsertedOne == up.kind = "one"
Upserted == up.jobs[1]

\* The row stored before the call has the title and company of the job.
SameHeading(row) == row.title = Upserted.title /\ row.company = Upserted.company

\* C14 (as the code has it): upserting a job whose source_url is not stored
\* returns "new"; upserting a job equal to the stored one returns "unchanged";
\* upserting it with a description whose text differs from the stored one
\* (None and the empty text are the same text) returns "updated", and with
\* the same text "unchanged"; after the call the stored row carries the job's
\* description text, so the same upsert made once more returns "unchanged".
C14_UpsertByUrlText ==
    UpsertedOne =>
        /\ up.prev = {} => up.rets = <<"new">>
        /\ \A row \in up.prev :
              SameHeading(row) =>
                 up.rets = IF OrEmpty(row.description) = OrEmpty(Upserted.description)
                           THEN <<"unchanged">> ELSE <<"updated">>
        /\ \A row \in RowsOf(job_postings, Upserted.source_url) :
              SameHeading(row) =>
                 OrEmpty(row.description) = OrEmpty(Upserted.description)

\* The description was changed from none to a text, and the upsert saw it.
C14_Witness ==
    /\ UpsertedOne /\ Upserted = JobA1
    /\ \E row \in up.prev : SameHeading(row) /\ row.description = None
                              /\ row.crawled_at = row.updated_at
    /\ up.rets = <<"updated">>

\* C14 as stated: upserting a job whose source_url is not stored returns
\* "new"; upserting the same job again returns "unchanged"; after changing its
\* description the next upsert returns "updated".
C14_UpsertByUrl ==
    UpsertedOne =>
        /\ up.prev = {} => up.rets = <<"new">>
        /\ \A row \in up.prev :
              SameHeading(row) =>
                 up.rets = IF row.description = Upserted.description
                           THEN <<"unchanged">> ELSE <<"updated">>


\* The last call upserted a batch [A, A', B]: A' has the source_url of A and a
\* description of another text, B has another source_url, and the database
\* accepts all three.
BatchAAB ==
    /\ up.kind = "batch" /\ Len(up.jobs) = 3
    /\ up.jobs[2].source_url = up.jobs[1].source_url
    /\ up.jobs[2].title = up.jobs[1].title
    /\ up.jobs[2].company = up.jobs[1].company
    /\ OrEmpty(up.jobs[2].description) # OrEmpty(up.jobs[1].description)
    /\ up.jobs[3].source_url # up.jobs[1].source_url
    /\ \A i \in 1..3 : ~Rejected(up.jobs[i])

\* C15 (as the code has it): the batch [A, A', B] upserted into an empty store
\* returns {new: 2, updated: 1, unchanged: 0} (A new, A' updated, B new);
\* the same batch upserted a second time returns {new: 0, updated: 2,
\* unchanged: 1} (A and A' each replace the other, B is unchanged).
C15_BatchCountsPerRow ==
    BatchAAB =>
        /\ up.had = {} =>
              /\ up.rets = <<"new", "updated", "new">>
              /\ up.counts = [new |-> 2, updated |-> 1, unchanged |-> 0]
        /\ up.again =>
              /\ up.rets = <<"updated", "updated", "unchanged">>
              /\ up.counts = [new |-> 0, updated |-> 2, unchanged |-> 1]

\* The batch has been upserted into the empty store and then once more.
C15_Witness ==
    /\ BatchAAB /\ up.again
    /\ up.jobs = <<JobA, JobA1, JobB>>
    /\ Cardinality(job_postings) = 2

C15_WitnessFirst ==
    /\ BatchAAB /\ up.had = {}
    /\ up.jobs = <<JobA, JobA1, JobB>>

\* C15 as stated: the batch [A, A', B] upserted into an empty store returns
\* {new: 1, updated: 1, unchanged: 0}; upserted a second time it returns
\* {new: 0, updated: 0, unchanged: 2}.
C15_BatchCounts ==
    BatchAAB =>
        /\ up.had = {} => up.counts = [new |-> 1, updated |-> 1, unchanged |-> 0]
        /\ up.again => up.counts = [new |-> 0, updated |-> 0, unchanged |-> 2]


\* C16: in every reachable state of the job store, the content_hash of each
\* row is compute_content_hash of that row's current title, company and
\* description, and no two rows have the same source_url.
C16_HashMatchesRow ==
    /\ \A row \in job_postings :
          row.content_hash =
              compute_content_hash(row.description, row.title, row.company)
    /\ \A r1, r2 \in job_postings : r1.source_url = r2.source_url => r1 = r2

\* Both source_urls are stored, one row updated since its insert, and the last
\* upsert was of a job whose content string is the stored one.
C16_Witness ==
    /\ Cardinality(job_postings) = 2
    /\ \E row \in job_postings : row.updated_at > row.crawled_at
    /\ UpsertedOne /\ Upserted = JobAc /\ up.rets = <<"unchanged">>
    /\ \E row \in job_postings : row.title = "T" /\ row.company = "C|D"


\* ---------------------------------------------- claims on the orchestrator

Terminal == {"completed", "failed"}

\* The run ids a behaviour can hand out.
RunIds == 1..MaxStamp

\* The run is one whose crawl is over (it is not the run being worked on).
Left(i) == i # eng.run \/ eng.pc \in {"loop", "returned", "escaped"}

\* C17: no exception raised while one (keyword, location, target) is processed
\* escapes the loop of run_full_crawl, a failure to create or to close the
\* CrawlRun included: the run is recorded as failed with an error_message
\* (so no run is left behind as running), and the loop goes on.
C17_NothingEscapes ==
    /\ eng.pc # "escaped"
    /\ \A i \in 1..Len(crawl_runs) :
          Left(i) =>
              /\ crawl_runs[i].status \in Terminal
              /\ crawl_runs[i].status = "failed" =>
                     crawl_runs[i].error_message # None

\* C18: every CrawlRun that is opened (status running) is eventually closed
\* with a terminal status, completed or failed, on every path of the target's
\* processing, an exception at any step after the run was opened included.
C18_RunsGetClosed ==
    \A i \in RunIds :
        (i <= Len(crawl_runs) /\ crawl_runs[i].status = "running")
            ~> (i <= Len(crawl_runs) /\ crawl_runs[i].status \in Terminal)

\* C19: in every reachable state of the run store, a CrawlRun with status
\* completed or failed has finished_at set, and a CrawlRun with status running
\* has finished_at unset.
C19_FinishedAtWithStatus ==
    \A i \in 1..Len(crawl_runs) :
        /\ crawl_runs[i].status \in Terminal \cup {"running"}
        /\ crawl_runs[i].status \in Terminal <=> crawl_runs[i].finished_at # None

\* A completed run, a failed one and one that is running.
C19_Witness ==
    /\ Len(crawl_runs) = 3
    /\ {crawl_runs[i].status : i \in 1..3} = {"completed", "failed", "running"}
    /\ \E i \in 1..3 : /\ crawl_runs[i].status = "failed"
                        /\ crawl_runs[i].finished_at # None
                        /\ crawl_runs[i].finished_at[1] > crawl_runs[i].started_at


\* ------------------------------------------------------ claims on the delay

\* C20: for any two successive completed wait(d) calls on one AdaptiveDelay
\* with no report_error between them, the second completes at least min_delay
\* after the first completed.
C20_DelayFloor ==
    (dl.gap >= 0 /\ dl.clean) => dl.gap >= MinDelay

\* Two waits completed exactly min_delay apart, the second after a sleep and
\* with a backoff that a report_success had lowered in between.
C20_Witness ==
    /\ dl.gap = MinDelay /\ dl.clean
    /\ dl.at > MinDelay
    /\ backoff_factor["a.com"] = Unit


\* C21: when several callers call wait(d) concurrently on one AdaptiveDelay,
\* their completions for d are pairwise at least the computed delay, hence at
\* least min_delay, apart: no two callers leave wait(d) closer together.
C21_CompletionsApart ==
    dl.gap >= 0 => dl.gap >= MinDelay


\* ---------------------------------------------------- claims on the process

\* The requests to domain d that are in flight.
InFlight(d) == {c \in CrawlSlots : proc[c].pc = "request" /\ proc[c].d = d}

\* C22: at any moment at most one request to a given domain is in flight in
\* the process, over all its crawl activity, a cron-triggered crawl that
\* starts while the startup crawl is still running included.
C22_OneInFlightPerDomain ==
    \A d \in Domains : Cardinality(InFlight(d)) <= 1


\* C23: the per-domain governor state lives for the whole process: what one
\* crawl run left (failure counts, open circuits, backoff factors, times of
\* the last requests) is in effect when the next run starts, so a domain whose
\* circuit opened in one run is still open for a run that starts before the
\* cooldown has elapsed.
C23_GovernorsOutliveRun ==
    [][crawls' # crawls => UNCHANGED <<circuitVars, delayVars>>]_vars


\* ------------------------------------------------- claims on the backoff

\* C24: after any sequence of report_success and report_error calls (with any
\* status code or none) the backoff factor of every domain is at least 1.0 and
\* at most 10.0; a domain that was never reported has the factor 1.0.
C24_BackoffRange ==
    /\ \A d \in Domains :
          backoff_factor[d] >= Unit /\ backoff_factor[d] <= 10 * Unit
    /\ \A d \in Domains \ Probed : backoff_factor[d] = Unit

\* Error reports have raised the factor to the cap, 10.0.
C24_Witness ==
    /\ backoff_factor["a.com"] = 10 * Unit
    /\ dl.rep.op = "error"

\* The factor is back at the floor of 1.0 after a success halved 1.0.
C24_WitnessFloor ==
    /\ backoff_factor["a.com"] = Unit
    /\ dl.rep.op = "success" /\ dl.rep.was = Unit

\* C25: each report_error(d, status) with status 429 or 503 sets the factor of
\* d to min(10.0, 2 * prior): the factor never decreases under such reports
\* (1, 2, 4, 8, 10, 10, ...) and never exceeds 10.0.
C25_RateLimitDoubles ==
    (dl.rep.op = "error" /\ dl.rep.code \in {429, 503}) =>
        /\ backoff_factor[dl.rep.d] = Min(10 * Unit, 2 * dl.rep.was)
        /\ backoff_factor[dl.rep.d] >= dl.rep.was
        /\ backoff_factor[dl.rep.d] <= 10 * Unit

\* A 503 reported at the factor 8.0 took it to the cap, 10.0, not to 16.0.
C25_Witness ==
    /\ dl.rep.op = "error" /\ dl.rep.code = 503
    /\ dl.rep.was = 8 * Unit
    /\ backoff_factor["a.com"] = 10 * Unit

\* A 429 reported at the factor 2.0 doubled it to 4.0.
C25_WitnessDouble ==
    /\ dl.rep.op = "error" /\ dl.rep.code = 429
    /\ dl.rep.was = 2 * Unit
    /\ backoff_factor["a.com"] = 4 * Unit

\* C26: after report_success(d) the factor of d is max(1.0, prior / 2).
C26_SuccessHalves ==
    dl.rep.op = "success" =>
        2 * backoff_factor[dl.rep.d] = Max(2 * Unit, dl.rep.was)

\* A success reported at the factor 1.0 left it at 1.0.
C26_Witness ==
    /\ dl.rep.op = "success" /\ dl.rep.was = Unit
    /\ backoff_factor["a.com"] = Unit

\* A success reported at the cap, 10.0, halved the factor to 5.0.
C26_WitnessHalf ==
    /\ dl.rep.op = "success" /\ dl.rep.was = 10 * Unit
    /\ backoff_factor["a.com"] = 5 * Unit


\* C27: when fetch receives a response with status 429 or 503, in either mode,
\* the backoff factor of the domain becomes min(10.0, 2 * prior), its failure
\* count increases by exactly 1, and fetch returns null.
C27_RateLimitedFetch ==
    (pc = "done" /\ obs.status \in {429, 503}) =>
        /\ backoff_factor[call.domain] = Min(10 * Unit, 2 * obs.was)
        /\ failure_counts[call.domain] = obs.cnt + 1
        /\ result = "null"


\* C28: get_status(d) changes no state of the breaker, and its result is
\* "closed" when open_since[d] is unset, "open" when it is set and less than
\* the cooldown has elapsed since, "half-open" when it is set and at least the
\* cooldown has elapsed.
C28_StatusValue ==
    last.op = "get_status" =>
        last.ret = IF last.d \notin DOMAIN open_since THEN "closed"
                   ELSE IF now - open_since[last.d] < cooldown THEN "open"
                   ELSE "half-open"

C28_StatusReadOnly ==
    last'.op = "get_status" => UNCHANGED <<circuitVars, now>>

C28_GetStatus == []C28_StatusValue /\ [][C28_StatusReadOnly]_vars

\* get_status answered "half-open" exactly when the cooldown had elapsed, and
\* the circuit is still recorded as open with its failure count.
C28_Witness ==
    /\ last.op = "get_status" /\ last.ret = "half-open"
    /\ cooldown > 0
    /\ last.d \in DOMAIN open_since
    /\ now - open_since[last.d] = cooldown
    /\ failure_counts[last.d] >= threshold

\* get_status answered "open" one tick before the cooldown had elapsed.
C28_WitnessOpen ==
    /\ last.op = "get_status" /\ last.ret = "open"
    /\ last.d \in DOMAIN open_since
    /\ now - open_since[last.d] = cooldown - 1


\* ---------------------------------------------- claims on raising rows

\* counts.get(key, 0)
CountOf(counts, key) == IF key \in DOMAIN counts THEN counts[key] ELSE 0

\* The rows of the last batch that the database rejects by themselves.
RaisingRows == {i \in 1..Len(up.jobs) : Rejected(up.jobs[i])}

\* C29: upsert_job_postings_batch goes through every job, in order, even
\* after a row has raised: each raising row adds exactly 1 to the error count,
\* the rows after it are still upserted, and new + updated + unchanged + error
\* is the length of the batch.
C29_BatchSurvivesRaisingRow ==
    up.kind = "batch" =>
        /\ CountOf(up.counts, "error") = Cardinality(RaisingRows)
        /\ \A i \in 1..Len(up.jobs) :
              i \notin RaisingRows =>
                  RowsOf(job_postings, up.jobs[i].source_url) # {}
        /\ CountOf(up.counts, "new") + CountOf(up.counts, "updated")
               + CountOf(up.counts, "unchanged") + CountOf(up.counts, "error")
             = Len(up.jobs)


\* ---------------------------------------------- claims on the proxy pool

\* C30: on a pool of N >= 1 proxies, with no add_proxy or remove_proxy in
\* between, N + 1 successive get_next calls return p0, p1, ..., p(N-1), p0:
\* each proxy once per cycle, in pool order; on an empty pool enabled is false
\* and get_next and get_random return nothing.
C30_RoundRobin ==
    /\ (px.fresh /\ Len(proxies) >= 1) =>
          /\ \A k \in 1..Len(px.seq) :
                px.seq[k] = proxies[((k - 1) % Len(proxies)) + 1]
          /\ Len(px.seq) = Len(proxies) + 1 =>
                px.seq = proxies \o <<proxies[1]>>
    /\ proxies = << >> =>
          /\ ~enabled
          /\ px.op \in {"get_next", "get_random"} => px.ret = None

\* A pool of three different proxies has answered four get_next calls.
C30_Witness ==
    /\ px.fresh /\ px.op = "get_next"
    /\ proxies = <<"http://p1", "http://p2", "http://p3">>
    /\ px.seq = <<"http://p1", "http://p2", "http://p3", "http://p1">>

\* A pool constructed empty has answered get_next with nothing.
C30_WitnessEmpty ==
    /\ px.fresh /\ proxies = << >>
    /\ px.op = "get_next" /\ px.ret = None


\* The URLs a pool holds.
Held(pool) == {pool[i] : i \in 1..Len(pool)}

\* C31: after remove_proxy(p), on any pool the constructor and add_proxy can
\* produce, neither get_random nor get_next returns p until p is added again;
\* add_proxy(p) on a pool that already holds p leaves the pool unchanged.
C31_RemovedStaysOut ==
    /\ (px.op \in {"get_next", "get_random"} /\ px.ret # None) =>
          px.ret[1] \notin px.gone
    /\ (px.op = "add_proxy" /\ px.arg \in Held(px.was)) => proxies = px.was

\* The second half of C31 alone: add_proxy ignores a URL the pool holds.
C31_AddIgnoresHeld ==
    (px.op = "add_proxy" /\ px.arg \in Held(px.was)) => proxies = px.was


\* ------------------------------------------- claims on the page signature

\* How often each class token is written in a class attribute.
TokenCounts(classes) ==
    [k \in 1..Len(TokenOrder) |->
        Len(SelectSeq(classes, LAMBDA token : token = TokenOrder[k]))]

\* The elements the signature looks at.
Looked(doc) == SubSeq(doc, 1, Min(Len(doc), SigLimit))

\* Per element looked at, its tag name and its class tokens with how often
\* each is written; and the same with the set of its class tokens.
TokenStructure(doc) ==
    [i \in 1..Len(Looked(doc)) |-> <<doc[i].tag, TokenCounts(doc[i].class)>>]
SetStructure(doc) ==
    [i \in 1..Len(Looked(doc)) |-> <<doc[i].tag, Held(doc[i].class)>>]

\* C32 (as the code has it): compute_page_signature returns the same signature
\* for two documents that differ only in text content or in the order of the
\* tokens inside class attributes, and the signature depends only on the
\* sequence of (tag name, class tokens with their numbers of occurrences) of
\* the first 200 elements in document order.
C32_SignatureByTokens ==
    (sg.done /\ TokenStructure(sg.a) = TokenStructure(sg.b)) => sg.sa = sg.sb

\* Two documents that differ in a text and in the order of two class tokens,
\* and in an element behind the limit, have one signature.
C32_Witness ==
    /\ sg.done /\ sg.sa = sg.sb
    /\ sg.a = <<Element("div", <<"a", "b">>, "x"), Element("p", <<"a">>, "x"),
                Element("div", <<"a">>, "x")>>
    /\ sg.b = <<Element("div", <<"b", "a">>, "y"), Element("p", <<"a">>, "x")>>

\* C32 as stated: the signature depends only on the (tag name, class set)
\* sequence of the first 200 elements.
C32_SignatureByClassSet ==
    (sg.done /\ SetStructure(sg.a) = SetStructure(sg.b)) => sg.sa = sg.sb


\* C33: every report_error(d, status), for any status (429, 503, any other
\* code, or none) and any current backoff factor, leaves the factor of d
\* greater than or equal to its value before the call.
C33_ErrorNeverLowers ==
    dl.rep.op = "error" => backoff_factor[dl.rep.d] >= dl.rep.was


\* ------------------------------------------- claims on the plan store, again

\* C34: when the LLM fallback yields null selectors (an answer that is not
\* valid JSON included, which yields no jobs and null selectors), extract
\* returns the LLM's jobs and leaves the plan store unchanged: a plan stored
\* for (domain, signature) is neither deleted nor modified, and no plan is
\* written.
C34_NullSelectorsStep ==
    (ex'.n # ex.n /\ ex'.llm = 1 /\ ex'.llmSel = "null") =>
        /\ store' = store
        /\ ex'.jobs = extract_jobs_from_html(ex'.resp, ex'.domain, ex'.keyword).jobs
        /\ ~ex'.resp.json => ex'.jobs = << >>

C34_NullSelectorsKeepStore == [][C34_NullSelectorsStep]_vars

\* A stored plan that no longer extracts anything sent the call to the LLM,
\* which answered jobs and null selectors: the plan is still stored.
C34_Witness ==
    /\ ex.llm = 1 /\ ex.llmSel = "null" /\ ex.used # "-"
    /\ ex.resp.json /\ ex.jobs # << >>
    /\ StoredNow = ex.used

\* The LLM's answer was not valid JSON, with a plan in the store.
C34_WitnessNotJson ==
    /\ ex.llm = 1 /\ ~ex.resp.json /\ ex.llmSel = "null" /\ ex.jobs = << >>
    /\ store # {}


\* ----------------------------------------------- claims on the upsert, again

\* C35: upserting a job whose (title, company, description) hash equals the
\* content_hash of the stored row with the same source_url changes no column
\* of that row (location, salary_range, posted_date, search_keyword and
\* updated_at keep their stored values, even if the new job's values differ)
\* and returns "unchanged".
C35_EqualHashNoWrite ==
    (UpsertedOne /\ \E row \in up.prev :
                       row.content_hash =
                           compute_content_hash(Upserted.description,
                                                Upserted.title, Upserted.company)) =>
        /\ RowsOf(job_postings, Upserted.source_url) = up.prev
        /\ up.rets = <<"unchanged">>

\* The job came with a location the stored row does not have and, later than
\* the row was written, with the same digest: the row kept its columns.
C35_Witness ==
    /\ UpsertedOne /\ Upserted = JobAloc /\ up.rets = <<"unchanged">>
    /\ \E row \in RowsOf(job_postings, Upserted.source_url) :
          /\ row.location = None
          /\ row.updated_at < clock


\* ---------------------------------------------- claims on the breaker, again

\* C36: in every reachable state of the CircuitBreaker, for every domain d,
\* if open_since[d] is set then the failure count of d is at least the
\* threshold: a domain whose failure count is below the threshold has no
\* open_since, after any sequence of is_open, record_success, record_failure
\* and get_status.
C36_OpenMeansThreshold ==
    \A d \in Domains :
        /\ d \in DOMAIN open_since => failure_counts[d] >= threshold
        /\ failure_counts[d] < threshold => d \notin DOMAIN open_since

\* The circuit is open with more failures counted than the threshold: a
\* failure was recorded on the open circuit.
C36_Witness ==
    /\ "a.com" \in DOMAIN open_since
    /\ failure_counts["a.com"] > threshold
    /\ last.op = "record_failure"

\* The circuit was closed again, by a success, after it had been open.
C36_WitnessClosed ==
    /\ "a.com" \notin DOMAIN open_since
    /\ failure_counts["a.com"] = 0
    /\ last.op = "record_success"
    /\ hist["a.com"].origin = "recovered"


\* Where the model ends: the sleep of wait, or the cooldown of a circuit that
\* a late failure of the call in flight has opened anew, ends after the last
\* tick of the clock; or the backoff factor has left the grid of the scaled
\* arithmetic.
Horizon ==
    \/ pc = "sleeping" /\ wake > MaxTime * Unit
    \/ /\ "a.com" \in DOMAIN open_since
       /\ open_since["a.com"] + cooldown > MaxTime
    \/ pc = "parse" /\ ~Malformed(call.url) /\ ~Exact(get_domain(call.url))

\* The cooldown has elapsed since the circuit of the probed domain was opened.
CooledDown ==
    /\ "a.com" \in DOMAIN open_since
    /\ now - open_since["a.com"] >= cooldown

\* A fetch of the probed domain has passed the circuit check and its request
\* is made.
AtTransport ==
    /\ pc = "request" /\ call.domain = "a.com" /\ obs.opened = "false"

\* C37: an open circuit does not stay open forever: if time keeps advancing
\* and fetches for d keep being attempted, then once the cooldown has elapsed
\* since open_since[d] the next fetch for d passes the circuit check and
\* reaches the transport.
C37_OpenCircuitIsProbed == CooledDown ~> (AtTransport \/ Horizon)

\* The fetch that found the cooldown elapsed has cleared the circuit and is at
\* its request, after a sleep in wait.
C37_Witness ==
    /\ AtTransport
    /\ obs.probe
    /\ "a.com" \notin DOMAIN open_since
    /\ cooldown > 0 /\ wake > 0


\* ------------------------------------------------ claims on two domains

\* The failure count, open_since, backoff factor and last request time of
\* every domain but d are left as they are.
OthersUnchanged(d) ==
    \A e \in Domains \ {d} :
        /\ failure_counts'[e] = failure_counts[e]
        /\ (e \in DOMAIN open_since') = (e \in DOMAIN open_since)
        /\ e \in DOMAIN open_since => open_since'[e] = open_since[e]
        /\ backoff_factor'[e] = backoff_factor[e]
        /\ last_request'[e] = last_request[e]

\* C38: governor state is isolated per domain: every operation on domain d
\* (is_open, record_success, record_failure, wait, report_success,
\* report_error, and a whole fetch of a URL on d) leaves the failure count,
\* open_since, backoff factor and last request time of every other domain
\* unchanged.
C38_IsolatedStep ==
    /\ (FetchProbed \/ FetchStep) => OthersUnchanged("a.com")
    /\ \A d \in Domains :
          GovernorCall(d) => OthersUnchanged(d)

C38_DomainsIsolated == [][C38_IsolatedStep]_vars

\* Both domains have a history of their own: a.com's circuit is open after
\* failed fetches, b.com has one failure counted and a raised backoff.
C38_Witness ==
    /\ "a.com" \in DOMAIN open_since /\ "b.com" \notin DOMAIN open_since
    /\ failure_counts["b.com"] = 1
    /\ backoff_factor["b.com"] > backoff_factor["a.com"]
    /\ last_request["a.com"] # last_request["b.com"]
    /\ pc = "done"


\* ------------------------------------------- claims on the returned jobs

====
